---- MODULE Spec2Model ----
(***************************************************************************)
(* A model of GameSaver v1.5 (src/GameSaver.py): the GameSaveEntry tree,   *)
(* the encoder GameSaveEntry.addItem, the decoder                          *)
(* SaveableObject.reconstructObject, the line codec writeEntry/readEntry,  *)
(* the special-type registry and saveGame/loadGame.                        *)
(*                                                                         *)
(* Text is a sequence of one-character strings.  A Python object is a      *)
(* record with the same seven fields whatever its type:                    *)
(*   kind     what isinstance() sees: "int" "bool" "none" "str" "bytes"    *)
(*            "list" "tuple" "dict" "function" "object" "entry"            *)
(*   cls      obj.__class__.__name__, as text                              *)
(*   num      the number of an int, 1/0 of a bool                          *)
(*   text     the characters of a str, the bytes of a bytes, the __name__  *)
(*            of a function, the str() form of a plain object              *)
(*   objType, loadFn   the attributes of a GameSaveEntry                   *)
(*   items    the elements of a list or tuple, the (key, value) tuples of  *)
(*            a dict in iteration order, the components of a vector        *)
(*            object, the dataList of a GameSaveEntry                      *)
(***************************************************************************)
EXTENDS Integers, Sequences, FiniteSets, TLC

(***************************************************************************)
(* Bounds of the model.                                                    *)
(***************************************************************************)
\* The longest list, tuple, dict and children list that is built.
MaxLen == 2

(***************************************************************************)
(* Characters and the names the program uses.                              *)
(***************************************************************************)
NL == "\n"
BS == "\\"
QUOTE == "'"
XE9 == "<e9>"

S_int == <<"i", "n", "t">>
S_bool == <<"b", "o", "o", "l">>
S_NoneType == <<"N", "o", "n", "e", "T", "y", "p", "e">>
S_None == <<"N", "o", "n", "e">>
S_str == <<"s", "t", "r">>
S_bytes == <<"b", "y", "t", "e", "s">>
S_float == <<"f", "l", "o", "a", "t">>
S_list == <<"l", "i", "s", "t">>
S_tuple == <<"t", "u", "p", "l", "e">>
S_dict == <<"d", "i", "c", "t">>
S_function == <<"f", "u", "n", "c", "t", "i", "o", "n">>
S_method == <<"m", "e", "t", "h", "o", "d">>
S_GameSaveEntry == <<"G", "a", "m", "e", "S", "a", "v", "e", "E", "n", "t", "r", "y">>
S_True == <<"T", "r", "u", "e">>
S_False == <<"F", "a", "l", "s", "e">>
S_true == <<"t", "r", "u", "e">>
S_VBase2 == <<"V", "B", "a", "s", "e", "2">>
S_Vec2 == <<"V", "e", "c", "2">>
S_Foo == <<"F", "o", "o">>
S_Bar == <<"B", "a", "r">>
S_set == <<"s", "e", "t">>
S_OrderedDict == <<"O", "r", "d", "e", "r", "e", "d", "D", "i", "c", "t">>
S_Point == <<"P", "o", "i", "n", "t">>

ENTRY_MARKER == <<"E", "N", "T", "R", "Y">>

\* The value of an attribute that holds None where text is expected.
NoneText == <<"<None>">>

Digits == <<"0", "1", "2", "3", "4", "5", "6", "7", "8", "9">>

Upper == <<"A", "B", "C", "D", "E", "F", "G", "H", "I", "J", "K", "L", "M",
           "N", "O", "P", "Q", "R", "S", "T", "U", "V", "W", "X", "Y", "Z">>

Lower == <<"a", "b", "c", "d", "e", "f", "g", "h", "i", "j", "k", "l", "m",
           "n", "o", "p", "q", "r", "s", "t", "u", "v", "w", "x", "y", "z">>

Whitespace == {" ", "\t", NL, "\r"}

(***************************************************************************)
(* Sequence helpers.                                                       *)
(***************************************************************************)
Range(s) == {s[i] : i \in 1..Len(s)}

RECURSIVE Concat(_)
Concat(ss) == IF ss = <<>> THEN <<>> ELSE Head(ss) \o Concat(Tail(ss))

SeqsUpTo(S, n) == UNION {[1..k -> S] : k \in 0..n}

IndexOf(s, x) == CHOOSE i \in 1..Len(s) : s[i] = x

EndsWith(s, suffix) ==
    /\ Len(s) >= Len(suffix)
    /\ SubSeq(s, Len(s) - Len(suffix) + 1, Len(s)) = suffix

\* The number of newline characters in a text.
Newlines(text) == Cardinality({i \in 1..Len(text) : text[i] = NL})

(***************************************************************************)
(* Python objects.                                                         *)
(***************************************************************************)
Obj(kind, cls, num, text, objType, loadFn, items) ==
    [kind |-> kind, cls |-> cls, num |-> num, text |-> text,
     objType |-> objType, loadFn |-> loadFn, items |-> items]

PyInt(n) == Obj("int", S_int, n, <<>>, <<>>, <<>>, <<>>)
PyBool(b) == Obj("bool", S_bool, IF b THEN 1 ELSE 0, <<>>, <<>>, <<>>, <<>>)
PyNone == Obj("none", S_NoneType, 0, <<>>, <<>>, <<>>, <<>>)
PyStr(s) == Obj("str", S_str, 0, s, <<>>, <<>>, <<>>)
PyBytes(s) == Obj("bytes", S_bytes, 0, s, <<>>, <<>>, <<>>)
PyList(xs) == Obj("list", S_list, 0, <<>>, <<>>, <<>>, xs)
PyTuple(xs) == Obj("tuple", S_tuple, 0, <<>>, <<>>, <<>>, xs)
PyDict(pairs) == Obj("dict", S_dict, 0, <<>>, <<>>, <<>>, pairs)
PySet(xs) == Obj("set", S_set, 0, <<>>, <<>>, <<>>, xs)
PyFunction(name) == Obj("function", S_function, 0, name, <<>>, <<>>, <<>>)
PyObject(cls, str, comps) == Obj("object", cls, 0, str, <<>>, <<>>, comps)
Entry(objType, loadFn, dataList) ==
    Obj("entry", S_GameSaveEntry, 0, <<>>, objType, loadFn, dataList)

PyFloat(s) == Obj("float", S_float, 0, s, <<>>, <<>>, <<>>)

\* The result of a call: a returned value, or a raised exception with its
\* argument.
Return(v) == [ok |-> TRUE, exc |-> "", arg |-> <<>>, val |-> v]
Raise(exc, arg) == [ok |-> FALSE, exc |-> exc, arg |-> arg, val |-> PyNone]

(***************************************************************************)
(* The conversions between values and text that the program calls.         *)
(***************************************************************************)
\* A unicode_escape that lets the newline through.
UnicodeEscapeChar_KeepsNewline(c) ==
    CASE c = BS -> <<BS, BS>>
      [] c = "\t" -> <<BS, "t">>
      [] c = "\r" -> <<BS, "r">>
      [] c = XE9 -> <<BS, "x", "e", "9">>
      [] OTHER -> <<c>>

\* str.encode("unicode_escape"), one character.
UnicodeEscapeChar(c) ==
    CASE c = BS -> <<BS, BS>>
      [] c = NL -> <<BS, "n">>
      [] c = "\t" -> <<BS, "t">>
      [] c = "\r" -> <<BS, "r">>
      [] c = XE9 -> <<BS, "x", "e", "9">>
      [] OTHER -> <<c>>

\* str.encode("unicode_escape")
UnicodeEscape(s) == Concat([i \in 1..Len(s) |-> UnicodeEscapeChar(s[i])])

\* codecs.escape_encode, one byte.
EscapeEncodeByte(c) ==
    CASE c = BS -> <<BS, BS>>
      [] c = QUOTE -> <<BS, QUOTE>>
      [] c = NL -> <<BS, "n">>
      [] c = "\t" -> <<BS, "t">>
      [] c = "\r" -> <<BS, "r">>
      [] c = XE9 -> <<BS, "x", "e", "9">>
      [] OTHER -> <<c>>

\* codecs.escape_encode(b)[0]
EscapeEncode(s) == Concat([i \in 1..Len(s) |-> EscapeEncodeByte(s[i])])

HexDigits == Range(Digits) \cup {"a", "b", "c", "d", "e", "f", "A", "B", "C", "D", "E", "F"}

\* The byte a \xHH escape stands for, for the bytes of the model.
HexByte(h1, h2) ==
    IF <<h1, h2>> \in {<<"e", "9">>, <<"E", "9">>} THEN XE9
    ELSE IF <<h1, h2>> \in {<<"0", "a">>, <<"0", "A">>} THEN NL
    ELSE IF <<h1, h2>> \in {<<"5", "c">>, <<"5", "C">>} THEN BS
    ELSE "<" \o h1 \o h2 \o ">"

\* codecs.escape_decode on bytes: Return(PyBytes) or ValueError.
RECURSIVE EscapeDecodeBytes(_)
EscapeDecodeBytes(s) ==
    IF s = <<>> THEN Return(PyBytes(<<>>))
    ELSE IF Head(s) # BS THEN
        LET r == EscapeDecodeBytes(Tail(s))
        IN  IF r.ok THEN Return(PyBytes(<<Head(s)>> \o r.val.text)) ELSE r
    ELSE IF Len(s) = 1 THEN Raise("ValueError", <<>>)
    ELSE IF s[2] = "x" THEN
        IF Len(s) >= 4 /\ s[3] \in HexDigits /\ s[4] \in HexDigits THEN
            LET r == EscapeDecodeBytes(SubSeq(s, 5, Len(s)))
            IN  IF r.ok THEN Return(PyBytes(<<HexByte(s[3], s[4])>> \o r.val.text)) ELSE r
        ELSE Raise("ValueError", <<>>)
    ELSE
        LET one == CASE s[2] = BS -> <<BS>>
                     [] s[2] = QUOTE -> <<QUOTE>>
                     [] s[2] = "n" -> <<NL>>
                     [] s[2] = "t" -> <<"\t">>
                     [] s[2] = "r" -> <<"\r">>
                     [] s[2] = NL -> <<>>
                     [] OTHER -> <<BS, s[2]>>
            r == EscapeDecodeBytes(SubSeq(s, 3, Len(s)))
        IN  IF r.ok THEN Return(PyBytes(one \o r.val.text)) ELSE r

\* str.encode("utf-8"), one character: a character outside ASCII becomes
\* two bytes.
Utf8EncodeChar(c) == IF c = XE9 THEN <<"<c3>", "<a9>">> ELSE <<c>>

Utf8Encode(s) == Concat([i \in 1..Len(s) |-> Utf8EncodeChar(s[i])])

\* bytes.decode("utf-8"): Return(PyStr) or UnicodeDecodeError.
RECURSIVE Utf8Decode(_)
Utf8Decode(s) ==
    IF s = <<>> THEN Return(PyStr(<<>>))
    ELSE IF Len(s) >= 2 /\ s[1] = "<c3>" /\ s[2] = "<a9>" THEN
        LET r == Utf8Decode(SubSeq(s, 3, Len(s)))
        IN  IF r.ok THEN Return(PyStr(<<XE9>> \o r.val.text)) ELSE r
    ELSE IF Head(s) \in {XE9, "<c3>", "<a9>"} THEN Raise("UnicodeDecodeError", <<>>)
    ELSE
        LET r == Utf8Decode(Tail(s))
        IN  IF r.ok THEN Return(PyStr(<<Head(s)>> \o r.val.text)) ELSE r

\* str.lower(), one character.
LowerChar(c) ==
    IF \E i \in 1..26 : Upper[i] = c THEN Lower[IndexOf(Upper, c)] ELSE c

\* str.lower()
LowerStr(s) == [i \in 1..Len(s) |-> LowerChar(s[i])]

\* str(n) for a natural number.
RECURSIVE NatToStr(_)
NatToStr(n) ==
    IF n < 10 THEN <<Digits[n + 1]>>
    ELSE NatToStr(n \div 10) \o <<Digits[(n % 10) + 1]>>

\* str(n) for an int.
IntToStr(n) == IF n < 0 THEN <<"-">> \o NatToStr(-n) ELSE NatToStr(n)

\* str.strip() of the whitespace int() and float() ignore.
RECURSIVE LStrip(_)
LStrip(s) == IF s # <<>> /\ Head(s) \in Whitespace THEN LStrip(Tail(s)) ELSE s

RECURSIVE RStrip(_)
RStrip(s) ==
    IF s # <<>> /\ s[Len(s)] \in Whitespace THEN RStrip(SubSeq(s, 1, Len(s) - 1)) ELSE s

Strip(s) == LStrip(RStrip(s))

IsDigits(s) == s # <<>> /\ \A i \in 1..Len(s) : s[i] \in Range(Digits)

RECURSIVE DigitsToNat(_)
DigitsToNat(s) ==
    IF s = <<>> THEN 0
    ELSE 10 * DigitsToNat(SubSeq(s, 1, Len(s) - 1)) + (IndexOf(Digits, s[Len(s)]) - 1)

\* int(text): Return(PyInt) or ValueError.
ParseInt(text) ==
    LET s == Strip(text)
        signed == s # <<>> /\ Head(s) \in {"+", "-"}
        body == IF signed THEN Tail(s) ELSE s
    IN  IF IsDigits(body)
        THEN Return(PyInt(IF signed /\ Head(s) = "-" THEN -DigitsToNat(body)
                          ELSE DigitsToNat(body)))
        ELSE Raise("ValueError", text)

\* str(obj) for the objects that reach the last branch of addItem.
StrOf(obj) ==
    CASE obj.kind = "int" -> IntToStr(obj.num)
      [] obj.kind = "bool" -> IF obj.num = 1 THEN S_True ELSE S_False
      [] obj.kind = "none" -> S_None
      [] OTHER -> obj.text

\* bool(obj)
Truthy(obj) ==
    CASE obj.kind \in {"int", "bool"} -> obj.num # 0
      [] obj.kind = "none" -> FALSE
      [] obj.kind \in {"str", "bytes"} -> obj.text # <<>>
      [] obj.kind \in {"list", "tuple", "dict"} -> obj.items # <<>>
      [] OTHER -> TRUE

(***************************************************************************)
(* The host application of the examples: its classes, the subclass         *)
(* predicate it installs and the save and restore functions it registers.  *)
(***************************************************************************)
\* The classes of the host and their base classes (issubclass).
HostBases(cls) ==
    CASE cls = S_Vec2 -> {S_Vec2, S_VBase2}
      [] cls = S_VBase2 -> {S_VBase2}
      [] cls = S_Foo -> {S_Foo}
      [] OTHER -> {}

masterClassDict == {S_Vec2, S_VBase2, S_Foo}

\* The values GameSaver.isSubclass takes: unset, the predicate of the
\* examples, and a predicate that accepts every name.
Predicates == {"None", "isSubclass", "acceptAll"}

\* GameSaver.isSubclass(name, classToCheck), for a predicate that is set.
CallIsSubclass(pred, name, classToCheck) ==
    IF pred = "acceptAll" THEN TRUE
    ELSE IF name \in {S_NoneType, S_function, S_method} THEN FALSE
    ELSE IF name \notin masterClassDict THEN FALSE
    ELSE classToCheck \in HostBases(name)

\* isinstance(obj, type) for a registered type.
IsInstance(obj, type) == obj.kind = "object" /\ type \in HostBases(obj.cls)


\* Vec2(x, y) of the host; its text is what str() gives.
Vec2(x, y) ==
    PyObject(S_Vec2,
             S_Vec2 \o <<"(">> \o IntToStr(x) \o <<",", " ">> \o IntToStr(y) \o <<")">>,
             <<PyInt(x), PyInt(y)>>)

\* typeEntry.saveFn(obj)
CallSaveFn(fn, obj) ==
    IF fn = "getVector2ForSave" THEN PyTuple(<<obj.items[1], obj.items[2]>>)
    ELSE PyInt(obj.num)

\* description.dataList[i].dataList[0], read as a number.
Component(description, i) ==
    IF description.kind # "entry" THEN Raise("AttributeError", <<>>)
    ELSE IF Len(description.items) < i THEN Raise("IndexError", <<>>)
    ELSE IF description.items[i].kind # "entry" THEN Raise("AttributeError", <<>>)
    ELSE IF description.items[i].items = <<>> THEN Raise("IndexError", <<>>)
    ELSE LET x == description.items[i].items[1]
         IN  IF x.kind \in {"str", "bytes"} THEN ParseInt(x.text)
             ELSE Raise("TypeError", <<>>)

\* typeEntry.restoreFn(newVal)
CallRestoreFn(fn, newVal) ==
    IF fn = "makeVector2FromSave" THEN
        LET x == Component(newVal, 1)
            y == Component(newVal, 2)
        IN  IF ~x.ok THEN x
            ELSE IF ~y.ok THEN y
            ELSE Return(Vec2(x.val.num, y.val.num))
    ELSE Return(PyNone)

(***************************************************************************)
(* GameSaveEntry.addItem                                                   *)
(***************************************************************************)
\* A lookup that takes the first registered type for every host object.
FirstInstance_AnyObject(reg, obj) ==
    IF reg # <<>> /\ obj.kind = "object" THEN 1 ELSE 0

\* A lookup by the exact class of obj: type(obj) is the registered type.
FirstInstance_ExactType(reg, obj) ==
    IF \E i \in 1..Len(reg) : obj.kind = "object" /\ reg[i].type = obj.cls
    THEN CHOOSE i \in 1..Len(reg) : reg[i].type = obj.cls
    ELSE 0

\* The first registered type, in key order, that obj is an instance of; 0
\* when there is none.
FirstInstance(reg, obj) ==
    IF \E i \in 1..Len(reg) : IsInstance(obj, reg[i].type)
    THEN CHOOSE i \in 1..Len(reg) :
            /\ IsInstance(obj, reg[i].type)
            /\ \A j \in 1..(i - 1) : ~IsInstance(obj, reg[j].type)
    ELSE 0

\* The Leaf addItem stores for a str.
StrLeaf(obj) == PyBytes(UnicodeEscape(obj.text))

\* The Leaf addItem stores for a bytes.
BytesLeaf(obj) == PyBytes(EscapeEncode(obj.text))

\* A merge that keeps the directive of the node that is added.
MergeEntry_KeepsDirective(loadFn, obj) == Entry(obj.objType, obj.loadFn, obj.items)

\* newEntry for an obj that is a GameSaveEntry: the objType and the dataList
\* of obj, under the loadFn given to addItem.
MergeEntry(loadFn, obj) == Entry(obj.objType, loadFn, obj.items)

\* newEntry as addItem(loadFn, obj) builds it, under the registry reg.
RECURSIVE NewEntry(_, _, _)
NewEntry(loadFn, obj, reg) ==
    IF obj.kind = "dict" THEN
        \* obj.items holds the (key, value) tuples of list(obj.items())
        Entry(obj.cls, loadFn,
              [i \in 1..Len(obj.items) |-> NewEntry(<<>>, obj.items[i], reg)])
    ELSE IF obj.kind \in {"list", "tuple", "set"} THEN
        \* every other iterable that is not a str or a bytes
        Entry(obj.cls, loadFn,
              [i \in 1..Len(obj.items) |-> NewEntry(<<>>, obj.items[i], reg)])
    ELSE IF obj.kind = "function" THEN
        Entry(obj.cls, loadFn, <<PyStr(obj.text)>>)
    ELSE IF obj.kind = "entry" THEN
        MergeEntry(loadFn, obj)
    ELSE IF obj.kind = "str" THEN
        Entry(obj.cls, loadFn, <<StrLeaf(obj)>>)
    ELSE IF obj.kind = "bytes" THEN
        Entry(obj.cls, loadFn, <<BytesLeaf(obj)>>)
    ELSE
        LET i == FirstInstance(reg, obj)
        IN  IF i # 0
            THEN Entry(obj.cls, loadFn,
                       <<NewEntry(<<>>, CallSaveFn(reg[i].saveFn, obj), reg)>>)
            ELSE Entry(obj.cls, loadFn, <<PyStr(StrOf(obj))>>)

\* The index argument that stands for None.
NoIndex == -1

\* An insert that puts x at the end, whatever the index.
Insert_AtEnd(list, index, x) == Append(list, x)

\* list.insert(index, x) for index >= 0.
Insert(list, index, x) ==
    LET at == IF index > Len(list) THEN Len(list) ELSE index
    IN  SubSeq(list, 1, at) \o <<x>> \o SubSeq(list, at + 1, Len(list))

\* self after self.addItem(loadFn, obj, index).
addItem(self, loadFn, obj, index, reg) ==
    LET newEntry == NewEntry(loadFn, obj, reg)
    IN  IF index = NoIndex
        THEN [self EXCEPT !.items = Append(self.items, newEntry)]
        ELSE [self EXCEPT !.items = Insert(self.items, index, newEntry)]

(***************************************************************************)
(* SaveableObject.reconstructObject and its helpers                        *)
(***************************************************************************)
\* hash(obj) is defined.
RECURSIVE Hashable(_)
Hashable(obj) ==
    CASE obj.kind \in {"list", "dict"} -> FALSE
      [] obj.kind = "tuple" -> \A i \in 1..Len(obj.items) : Hashable(obj.items[i])
      [] OTHER -> TRUE

\* a == b for two keys of a dict: an int and a bool with the same number are
\* the same key.
RECURSIVE KeyEq(_, _)
KeyEq(a, b) ==
    IF a.kind \in {"int", "bool"} /\ b.kind \in {"int", "bool"} THEN a.num = b.num
    ELSE IF a.kind = "tuple" /\ b.kind = "tuple" THEN
        /\ Len(a.items) = Len(b.items)
        /\ \A i \in 1..Len(a.items) : KeyEq(a.items[i], b.items[i])
    ELSE a = b

\* A store that keeps the value a key already has.
DictSet_KeepsFirst(pairs, key, value) ==
    IF \E i \in 1..Len(pairs) : KeyEq(pairs[i].items[1], key)
    THEN pairs
    ELSE Append(pairs, PyTuple(<<key, value>>))

\* The (key, value) tuples of a dict after result[key] = value.
DictSet(pairs, key, value) ==
    IF \E i \in 1..Len(pairs) : KeyEq(pairs[i].items[1], key)
    THEN [i \in 1..Len(pairs) |->
            IF KeyEq(pairs[i].items[1], key)
            THEN PyTuple(<<pairs[i].items[1], value>>)
            ELSE pairs[i]]
    ELSE Append(pairs, PyTuple(<<key, value>>))

\* The printable ASCII characters, from code 32 on.
Printable ==
    <<" ", "!", "\"", "#", "$", "%", "&", "'", "(", ")", "*", "+", ",", "-", ".", "/",
      "0", "1", "2", "3", "4", "5", "6", "7", "8", "9", ":", ";", "<", "=", ">", "?",
      "@", "A", "B", "C", "D", "E", "F", "G", "H", "I", "J", "K", "L", "M", "N", "O",
      "P", "Q", "R", "S", "T", "U", "V", "W", "X", "Y", "Z", "[", "\\", "]", "^", "_",
      "<60>", "a", "b", "c", "d", "e", "f", "g", "h", "i", "j", "k", "l", "m", "n", "o",
      "p", "q", "r", "s", "t", "u", "v", "w", "x", "y", "z", "{", "|", "}", "~">>

\* The number of a byte.
ByteValue(c) ==
    CASE c = NL -> 10
      [] c = "\t" -> 9
      [] c = "\r" -> 13
      [] c = XE9 -> 233
      [] c = "<c3>" -> 195
      [] c = "<a9>" -> 169
      [] OTHER -> 31 + IndexOf(Printable, c)

\* obj[i], i counted from 0, for the objects of the model that have items.
Subscript(obj, i) ==
    IF obj.kind \in {"list", "tuple"} THEN
        IF i < Len(obj.items) THEN Return(obj.items[i + 1])
        ELSE Raise("IndexError", <<>>)
    ELSE IF obj.kind = "str" THEN
        IF i < Len(obj.text) THEN Return(PyStr(<<obj.text[i + 1]>>))
        ELSE Raise("IndexError", <<>>)
    ELSE IF obj.kind = "bytes" THEN
        IF i < Len(obj.text) THEN Return(PyInt(ByteValue(obj.text[i + 1])))
        ELSE Raise("IndexError", <<>>)
    ELSE IF obj.kind = "dict" THEN Raise("KeyError", <<>>)
    ELSE Raise("TypeError", <<>>)

\* A loop that does not stop at the first match: the last registered type the
\* predicate accepts is the one that is used.
FirstSubclass_Last(reg, pred, objType) ==
    IF \E i \in 1..Len(reg) : CallIsSubclass(pred, objType, reg[i].type)
    THEN CHOOSE i \in 1..Len(reg) :
            /\ CallIsSubclass(pred, objType, reg[i].type)
            /\ \A j \in (i + 1)..Len(reg) : ~CallIsSubclass(pred, objType, reg[j].type)
    ELSE 0

\* The first registered type, in key order, that the predicate accepts for
\* the tag; 0 when there is none.
FirstSubclass(reg, pred, objType) ==
    IF \E i \in 1..Len(reg) : CallIsSubclass(pred, objType, reg[i].type)
    THEN CHOOSE i \in 1..Len(reg) :
            /\ CallIsSubclass(pred, objType, reg[i].type)
            /\ \A j \in 1..(i - 1) : ~CallIsSubclass(pred, objType, reg[j].type)
    ELSE 0

\* "if len(newVal) == 1: newVal = newVal[0]"
Collapse(newVal) == IF Len(newVal.items) = 1 THEN newVal.items[1] ELSE newVal

\* bytes(newVal, "utf-8").decode("utf-8")
DecodeStr(newVal) ==
    IF newVal.kind = "str" THEN Return(PyStr(newVal.text))
    ELSE Raise("TypeError", <<>>)

\* codecs.escape_decode(newVal)[0]
DecodeBytes(newVal) ==
    IF newVal.kind = "bytes" THEN EscapeDecodeBytes(newVal.text)
    ELSE IF newVal.kind = "str" THEN EscapeDecodeBytes(Utf8Encode(newVal.text))
    ELSE Raise("TypeError", <<>>)

\* int(newVal)
DecodeInt(newVal) ==
    IF newVal.kind \in {"str", "bytes"} THEN ParseInt(newVal.text)
    ELSE IF newVal.kind \in {"int", "bool"} THEN Return(PyInt(newVal.num))
    ELSE Raise("TypeError", <<>>)

\* float(newVal): the text of the number is kept, the number is not computed.
DecodeFloat(newVal) ==
    IF newVal.kind \in {"str", "bytes"} THEN
        LET s == Strip(newVal.text)
            body == IF s # <<>> /\ Head(s) \in {"+", "-"} THEN Tail(s) ELSE s
            dots == {i \in 1..Len(body) : body[i] = "."}
            digits == {i \in 1..Len(body) : body[i] \in Range(Digits)}
        IN  IF /\ Cardinality(dots) <= 1
               /\ digits # {}
               /\ dots \cup digits = 1..Len(body)
            THEN Return(PyFloat(s))
            ELSE Raise("ValueError", newVal.text)
    ELSE IF newVal.kind \in {"int", "bool"} THEN Return(PyFloat(IntToStr(newVal.num)))
    ELSE Raise("TypeError", <<>>)

\* A bool rule that compares the text without lowering it.
DecodeBool_CaseSensitive(newVal) ==
    IF newVal.kind = "str"
    THEN PyBool(newVal.text = S_true \/ newVal.text = <<"1">>)
    ELSE PyBool(Truthy(newVal))

\* The bool rule of reconstructObject, on the collapsed newVal.
DecodeBool(newVal) ==
    IF newVal.kind = "str"
    THEN PyBool(LowerStr(newVal.text) = S_true \/ LowerStr(newVal.text) = <<"1">>)
    ELSE PyBool(Truthy(newVal))

\* A GameSaveEntry rule that puts newVal in a new list, list or not.
DecodeEntry_AlwaysWraps(newVal, objType) == Entry(objType, NoneText, <<newVal>>)

\* The GameSaveEntry rule of reconstructObject, on the collapsed newVal.
DecodeEntry(newVal, objType) ==
    IF newVal.kind = "list"
    THEN Entry(objType, NoneText, newVal.items)
    ELSE Entry(objType, NoneText, <<newVal>>)

\* A last branch that gives None for a class it does not know.
RaiseUnsupported_ReturnsNone(newVal, objType) ==
    IF objType = S_function \/ objType = S_method
    THEN Raise("IOError: cannot save methods or functions", newVal.text)
    ELSE Return(PyNone)

\* A last branch that gives the recorded name back for a function.
RaiseUnsupported_ReturnsName(newVal, objType) ==
    IF objType = S_function \/ objType = S_method
    THEN Return(newVal)
    ELSE Raise("IOError: unrecognised class", objType)

\* The last branch of reconstructObject, on the collapsed newVal: the two
\* IOErrors, the first with newVal and the second with the class name.
RaiseUnsupported(newVal, objType) ==
    IF objType = S_function \/ objType = S_method
    THEN Raise("IOError: cannot save methods or functions", newVal.text)
    ELSE Raise("IOError: unrecognised class", objType)

RECURSIVE reconstructObject(_, _, _, _)
RECURSIVE reconstructElements(_, _, _)
RECURSIVE reconstructPairs(_, _, _, _)

\* The loop of reconstructList and reconstructTuple over listData: the list
\* of the decoded elements, or the first exception.
reconstructElements(listData, reg, pred) ==
    IF listData = <<>> THEN Return(PyList(<<>>))
    ELSE IF Head(listData).kind # "entry" THEN Raise("AttributeError", <<>>)
    ELSE
        LET first == reconstructObject(PyList(Head(listData).items),
                                       Head(listData).objType, reg, pred)
        IN  IF ~first.ok THEN first
            ELSE LET rest == reconstructElements(Tail(listData), reg, pred)
                 IN  IF ~rest.ok THEN rest
                     ELSE Return(PyList(<<first.val>> \o rest.val.items))

reconstructList(listData, reg, pred) == reconstructElements(listData, reg, pred)

reconstructTuple(listData, reg, pred) ==
    LET temp == reconstructElements(listData, reg, pred)
    IN  IF temp.ok THEN Return(PyTuple(temp.val.items)) ELSE temp

\* The loop of reconstructDictionary over listData, from the dict result.
reconstructPairs(listData, result, reg, pred) ==
    IF listData = <<>> THEN Return(PyDict(result))
    ELSE IF Head(listData).kind # "entry" THEN Raise("AttributeError", <<>>)
    ELSE
        LET tuple == reconstructObject(PyList(Head(listData).items),
                                       Head(listData).objType, reg, pred)
            key == Subscript(tuple.val, 0)
            value == Subscript(tuple.val, 1)
        IN  IF ~tuple.ok THEN tuple
            ELSE IF ~key.ok THEN key
            ELSE IF ~value.ok THEN value
            ELSE IF ~Hashable(key.val) THEN Raise("TypeError", <<>>)
            ELSE reconstructPairs(Tail(listData),
                                  DictSet(result, key.val, value.val), reg, pred)

reconstructDictionary(listData, reg, pred) == reconstructPairs(listData, <<>>, reg, pred)

\* reconstructObject(newVal, objType); newVal is a Python list of data items.
reconstructObject(newVal, objType, reg, pred) ==
    IF reg # <<>> /\ pred = "None" THEN Raise("TypeError", <<>>)
    ELSE IF FirstSubclass(reg, pred, objType) # 0 THEN
        CallRestoreFn(reg[FirstSubclass(reg, pred, objType)].restoreFn, Collapse(newVal))
    ELSE IF objType = S_list THEN reconstructList(newVal.items, reg, pred)
    ELSE IF objType = S_tuple THEN reconstructTuple(newVal.items, reg, pred)
    ELSE IF objType = S_dict THEN reconstructDictionary(newVal.items, reg, pred)
    ELSE IF objType = S_bool THEN Return(DecodeBool(Collapse(newVal)))
    ELSE IF objType = S_NoneType \/ objType = S_None THEN Return(PyNone)
    ELSE IF objType = S_GameSaveEntry THEN Return(DecodeEntry(Collapse(newVal), objType))
    ELSE IF objType = S_str THEN DecodeStr(Collapse(newVal))
    ELSE IF objType = S_bytes THEN DecodeBytes(Collapse(newVal))
    ELSE IF objType = S_int THEN DecodeInt(Collapse(newVal))
    ELSE IF objType = S_float THEN DecodeFloat(Collapse(newVal))
    ELSE RaiseUnsupported(Collapse(newVal), objType)

(***************************************************************************)
(* The text codec: writeLine, readLine, writeEntry, readEntry              *)
(***************************************************************************)
\* repr(b) of a bytes.
BytesRepr(b) ==
    LET q == IF QUOTE \in Range(b) /\ "\"" \notin Range(b) THEN "\"" ELSE QUOTE
        esc(c) == IF c = QUOTE /\ q # QUOTE THEN <<c>> ELSE EscapeEncodeByte(c)
    IN  <<"b", q>> \o Concat([i \in 1..Len(b) |-> esc(b[i])]) \o <<q>>

\* A writer that gives an attribute that is None no text.
AttrText_NoneIsEmpty(attr) == IF attr = NoneText THEN <<>> ELSE attr

\* The text of an objType or loadFn attribute as str() gives it.
AttrText(attr) == IF attr = NoneText THEN S_None ELSE attr

\* The text writeLine makes of its argument before it looks at the end of it.
LineText(line) ==
    IF line.kind = "str" THEN line.text
    ELSE IF line.kind = "bytes" THEN
        IF Utf8Decode(line.text).ok THEN Utf8Decode(line.text).val.text
        ELSE BytesRepr(line.text)
    ELSE StrOf(line)

\* The characters writeLine(line, fileObj) writes.
writeLine(line) ==
    IF EndsWith(LineText(line), <<NL>>) THEN LineText(line)
    ELSE LineText(line) \o <<NL>>

\* The characters writeEntry(obj, fileObj) writes.
RECURSIVE writeEntry(_)
writeEntry(obj) ==
    writeLine(PyStr(AttrText(obj.objType)))
    \o writeLine(PyStr(AttrText(obj.loadFn)))
    \o writeLine(PyInt(Len(obj.items)))
    \o Concat([i \in 1..Len(obj.items) |->
                IF obj.items[i].kind = "entry"
                THEN writeLine(PyStr(ENTRY_MARKER)) \o writeEntry(obj.items[i])
                ELSE writeLine(obj.items[i])])

\* The number of characters fileObj.readline() takes from the stream.
LineEnd(stream) ==
    IF \E i \in 1..Len(stream) : stream[i] = NL
    THEN CHOOSE i \in 1..Len(stream) :
            stream[i] = NL /\ \A j \in 1..(i - 1) : stream[j] # NL
    ELSE Len(stream)

\* readLine(fileObj): the line without its final newline, and what is left
\* of the stream.
readLine(stream) ==
    LET result == SubSeq(stream, 1, LineEnd(stream))
    IN  [line |-> IF EndsWith(result, <<NL>>)
                  THEN SubSeq(result, 1, Len(result) - 1) ELSE result,
         rest |-> SubSeq(stream, LineEnd(stream) + 1, Len(stream))]

\* The outcome of a read: the value read (or the exception) and what is left
\* of the stream.
Read(res, rest) == [res |-> res, rest |-> rest]

RECURSIVE readEntry(_)
RECURSIVE readItems(_, _)

\* The loop of readEntry, numItems times from the stream: the list of the
\* items read.
readItems(stream, numItems) ==
    IF numItems <= 0 THEN Read(Return(PyList(<<>>)), stream)
    ELSE
        LET input == readLine(stream)
            first == IF input.line = ENTRY_MARKER
                     THEN readEntry(input.rest)
                     ELSE Read(Return(PyStr(input.line)), input.rest)
        IN  IF ~first.res.ok THEN first
            ELSE LET others == readItems(first.rest, numItems - 1)
                 IN  IF ~others.res.ok THEN others
                     ELSE Read(Return(PyList(<<first.res.val>> \o others.res.val.items)),
                               others.rest)

\* readEntry(fileObj) on a stream of characters.
readEntry(stream) ==
    LET type == readLine(stream)
        loadFn == readLine(type.rest)
        count == readLine(loadFn.rest)
        numItems == ParseInt(count.line)
    IN  IF ~numItems.ok THEN Read(numItems, count.rest)
        ELSE LET dataList == readItems(count.rest, numItems.val.num)
             IN  IF ~dataList.res.ok THEN dataList
                 ELSE Read(Return(Entry(type.line, loadFn.line, dataList.res.val.items)),
                           dataList.rest)

(***************************************************************************)
(* The objects the host saves.                                             *)
(***************************************************************************)
StrTexts ==
    {<<>>, <<"a">>, <<"a", NL, "b">>, <<BS>>, <<XE9>>, <<QUOTE>>, <<"7">>,
     ENTRY_MARKER, S_True}

BytesTexts == {<<>>, <<"a", NL, "b">>, <<BS, "n">>, <<XE9>>, <<QUOTE>>, ENTRY_MARKER}

Ints == {-12, 0, 7}

\* Instances of host classes: vectors of a registrable type, and a class no
\* type is registered for.
HostObjects ==
    {Vec2(1, 2), Vec2(-3, 10),
     PyObject(S_VBase2, S_VBase2, <<PyInt(5), PyInt(6)>>),
     PyObject(S_Foo, <<"f", "o", "o", "!">>, <<PyInt(0), PyInt(0)>>)}

Scalars ==
    {PyInt(n) : n \in Ints} \cup {PyBool(TRUE), PyBool(FALSE), PyNone}
    \cup {PyStr(s) : s \in StrTexts} \cup {PyBytes(b) : b \in BytesTexts}

\* What the lists, tuples and dicts of the model hold.
Elements == {PyInt(7), PyStr(<<"a">>), PyBool(TRUE), Vec2(1, 2)}

Keys == {PyInt(7), PyStr(<<"a">>), PyTuple(<<PyInt(7)>>)}

Inner == {PyList(<<>>), PyList(<<PyInt(7)>>), PyTuple(<<PyInt(7)>>), PyNone}

Lists(S) == {PyList(xs) : xs \in SeqsUpTo(S, MaxLen)}

Tuples(S) == {PyTuple(xs) : xs \in SeqsUpTo(S, MaxLen)}

\* The dicts with keys of Keys: the (key, value) tuples in iteration order,
\* no key twice.
Dicts(S) ==
    {PyDict([i \in 1..Len(ks) |-> PyTuple(<<ks[i], vs[i]>>)]) :
        <<ks, vs>> \in {kv \in SeqsUpTo(Keys, MaxLen) \X SeqsUpTo(S, MaxLen) :
                            /\ Len(kv[1]) = Len(kv[2])
                            /\ \A i, j \in 1..Len(kv[1]) :
                                  i # j => ~KeyEq(kv[1][i], kv[1][j])}}

\* The values of the types the round trip is specified for.
Supported ==
    Scalars \cup {Vec2(1, 2), Vec2(-3, 10)}
    \cup Lists(Elements) \cup Tuples(Elements) \cup Dicts(Elements)
    \cup Lists(Inner) \cup Tuples(Inner)

\* Every object the host passes to addItem.
Values == Supported \cup HostObjects \cup {PyFunction(<<"f">>)}

(***************************************************************************)
(* The state: the registry and the predicate of class GameSaver, and the   *)
(* objects one save and load of a SaveableWrapper passes along.            *)
(***************************************************************************)
VARIABLES
    specialTypeDictionary,  \* GameSaver.specialTypeDictionary, in key order
    isSubclass,             \* GameSaver.isSubclass
    data,                   \* self.data of the SaveableWrapper that is saved
    entry,                  \* the GameSaveEntry getSaveData returned
    file,                   \* the characters of the save file
    loaded,                 \* the outcome of the last readEntry
    node,                   \* the entry last given to reconstructObject
    decoded,                \* the outcome of the last reconstructObject
    pc,                     \* the step that was taken last
    exists,                 \* the save file exists
    openHandles,            \* the file objects that were opened and not closed
    result,                 \* the outcome of the last saveGame or loadGame
    target,                 \* the object loadFromSaveData was last called on
    calls,                  \* the methods loadFromSaveData called, in order
    applied                 \* the outcome of the last loadFromSaveData

vars ==
    <<specialTypeDictionary, isSubclass, data, entry, file, loaded, node, decoded, pc,
      exists, openHandles, result, target, calls, applied>>

registry == <<specialTypeDictionary, isSubclass>>

disk == <<exists, openHandles, result>>

host == <<target, calls, applied>>

RegistrableTypes == {S_VBase2, S_Vec2}

\* The (restoreFn, saveFn) pairs the host registers.
Handlers ==
    {<<"makeVector2FromSave", "getVector2ForSave">>,
     <<"getGameObjectFromSave", "getGameObjectID">>}

\* SpecialTypeEntry(restoreFn, saveFn), stored under its type.
SpecialTypeEntry(type, restoreFn, saveFn) ==
    [type |-> type, restoreFn |-> restoreFn, saveFn |-> saveFn]

\* GameSaveEntry()
NewGameSaveEntry == Entry(S_GameSaveEntry, NoneText, <<>>)

NoResult == Raise("not called", <<>>)

S_data == <<"d", "a", "t", "a", " ", "=", " ">>

Init ==
    /\ specialTypeDictionary = <<>>
    /\ isSubclass = "None"
    /\ data = PyNone
    /\ entry = NewGameSaveEntry
    /\ file = <<>>
    /\ loaded = NoResult
    /\ node = NewGameSaveEntry
    /\ decoded = NoResult
    /\ pc = "idle"
    /\ exists = FALSE
    /\ openHandles = 0
    /\ result = NoResult
    /\ target = PyNone
    /\ calls = <<>>
    /\ applied = NoResult

\* A registry kept as a list, to which every registration is added.
DictStore_Appends(dict, e) == Append(dict, e)

\* specialTypeDictionary after specialTypeDictionary[type] = entry.
DictStore(dict, e) ==
    IF \E i \in 1..Len(dict) : dict[i].type = e.type
    THEN [i \in 1..Len(dict) |-> IF dict[i].type = e.type THEN e ELSE dict[i]]
    ELSE Append(dict, e)

\* GameSaver.addSpecialType(type, restoreFn, saveFn); the host registers its
\* types before it saves or loads.
addSpecialType(type, restoreFn, saveFn) ==
    /\ pc = "idle"
    /\ specialTypeDictionary' =
          DictStore(specialTypeDictionary, SpecialTypeEntry(type, restoreFn, saveFn))
    /\ UNCHANGED <<isSubclass, data, entry, file, loaded, node, decoded, pc, disk, host>>

\* The host's assignment GameSaver.isSubclass = predicate.
setIsSubclass(predicate) ==
    /\ pc = "idle"
    /\ predicate # "None"
    /\ isSubclass' = predicate
    /\ UNCHANGED <<specialTypeDictionary, data, entry, file, loaded, node, decoded, pc, disk, host>>

\* A destroy that empties the dictionary and leaves the predicate in place.
destroy_KeepsPredicate ==
    /\ specialTypeDictionary' = <<>>
    /\ UNCHANGED <<isSubclass, data, entry, file, loaded, node, decoded, pc, disk, host>>

\* GameSaver.destroy()
destroy ==
    /\ specialTypeDictionary' = <<>>
    /\ isSubclass' = "None"
    /\ UNCHANGED <<data, entry, file, loaded, node, decoded, pc, disk, host>>

\* SaveableWrapper.getSaveData with self.data = obj.
getSaveData(obj) ==
    /\ pc = "idle"
    /\ data' = obj
    /\ entry' = addItem(NewGameSaveEntry, S_data, obj, NoIndex, specialTypeDictionary)
    /\ pc' = "encoded"
    /\ UNCHANGED <<registry, file, loaded, node, decoded, disk, host>>

\* GameSaver.writeEntry(entry, fileObj) on an empty file.
WriteEntry ==
    /\ pc = "encoded"
    /\ file' = writeEntry(entry)
    /\ pc' = "written"
    /\ UNCHANGED <<registry, data, entry, loaded, node, decoded, disk, host>>

\* GameSaver.readEntry(fileObj) from the start of the file.
ReadEntry ==
    /\ pc = "written"
    /\ loaded' = readEntry(file).res
    /\ pc' = "read"
    /\ UNCHANGED <<registry, data, entry, file, node, decoded, disk, host>>

\* reconstructObject(datum.dataList, datum.objType) for the datum addItem
\* put in the entry, without the file in between.
ReconstructEntry ==
    /\ pc = "encoded"
    /\ node' = entry.items[1]
    /\ decoded' = reconstructObject(PyList(entry.items[1].items), entry.items[1].objType,
                                    specialTypeDictionary, isSubclass)
    /\ pc' = "decoded"
    /\ UNCHANGED <<registry, data, entry, file, loaded, disk, host>>

\* reconstructObject(datum.dataList, datum.objType) for the first datum of
\* the entry that was read, as loadFromSaveData calls it.
ReconstructLoaded ==
    /\ pc = "read"
    /\ loaded.ok
    /\ loaded.val.items # <<>>
    /\ loaded.val.items[1].kind = "entry"
    /\ node' = loaded.val.items[1]
    /\ decoded' = reconstructObject(PyList(loaded.val.items[1].items),
                                    loaded.val.items[1].objType,
                                    specialTypeDictionary, isSubclass)
    /\ pc' = "reloaded"
    /\ UNCHANGED <<registry, data, entry, file, loaded, disk, host>>

\* The type tags of the nodes given to reconstructObject: the names it
\* knows, the classes of the host, and a class the host does not know.
Tags ==
    {S_int, S_bool, S_NoneType, S_None, S_str, S_bytes, S_float, S_list, S_tuple,
     S_dict, S_GameSaveEntry, S_function, S_method, S_Foo, S_Vec2, S_Bar}

LeafTexts == {S_True, S_true, <<"T", "R", "U", "E">>, <<"1">>, S_False, <<"0">>, <<"f">>}

\* The data items of those nodes: Leaves as readEntry makes them, a nested
\* node, and the node of the tuple a vector is saved as.
Items ==
    {PyStr(t) : t \in LeafTexts}
    \cup {Entry(S_int, <<>>, <<PyStr(<<"7">>)>>),
          Entry(S_tuple, <<>>, <<Entry(S_int, <<>>, <<PyStr(<<"7">>)>>),
                                 Entry(S_int, <<>>, <<PyStr(<<"1">>)>>)>>)}

\* reconstructObject(dataList, objType) on a node that was not built by
\* addItem, such as one read from a file written by hand.
ReconstructNode(objType, dataList) ==
    /\ pc = "idle"
    /\ node' = Entry(objType, <<>>, dataList)
    /\ decoded' = reconstructObject(PyList(dataList), objType,
                                    specialTypeDictionary, isSubclass)
    /\ pc' = "decoded node"
    /\ UNCHANGED <<registry, data, entry, file, loaded, disk, host>>

(***************************************************************************)
(* SaveableObject.loadFromSaveData, and the saveable objects of the host:  *)
(* a GameObject that holds a Weapon, as in the examples.                   *)
(***************************************************************************)
S_GameObject == <<"G", "a", "m", "e", "O", "b", "j", "e", "c", "t">>
S_Weapon == <<"W", "e", "a", "p", "o", "n">>
S_loadWeapon == <<"l", "o", "a", "d", "W", "e", "a", "p", "o", "n">>
S_setPosFromSave == <<"s", "e", "t", "P", "o", "s", "F", "r", "o", "m", "S", "a", "v", "e">>
S_weapon == <<"w", "e", "a", "p", "o", "n">>
S_pos == <<"p", "o", "s">>
S_intField == <<"i", "n", "t", "F", "i", "e", "l", "d">>
S_listField == <<"l", "i", "s", "t", "F", "i", "e", "l", "d">>
S_name == <<"n", "a", "m", "e">>

\* A SaveableObject of the host: its class and its attributes, as (name,
\* value) tuples in the order they were first set.
Saveable(cls, attrs) == PyObject(cls, <<>>, attrs)

Attr(name, value) == PyTuple(<<PyStr(name), value>>)

HasAttr(self, name) == \E i \in 1..Len(self.items) : self.items[i].items[1] = PyStr(name)

GetAttr(self, name) ==
    self.items[CHOOSE i \in 1..Len(self.items) : self.items[i].items[1] = PyStr(name)].items[2]

\* A setattr that does not overwrite an attribute that is already set.
SetAttr_KeepsFirst(self, name, value) ==
    IF HasAttr(self, name) THEN self
    ELSE [self EXCEPT !.items = Append(self.items, Attr(name, value))]

\* setattr(self, name, value)
SetAttr(self, name, value) ==
    [self EXCEPT !.items = DictSet(self.items, PyStr(name), value)]

\* SaveableObject.getSaveData(self, forLevelSave)
BaseGetSaveData(self) == [NewGameSaveEntry EXCEPT !.objType = self.cls]

RECURSIVE HostGetSaveData(_, _)
RECURSIVE AddItems(_, _, _)

\* The addItem calls of getSaveData of the host classes, one per attribute:
\* a Weapon is put in a GameSaveEntry of its own and added under the
\* directive loadWeapon, every other value under "<name> =".
AddItems(saveData, attrs, reg) ==
    IF attrs = <<>> THEN saveData
    ELSE LET name == Head(attrs).items[1].text
             value == Head(attrs).items[2]
             weaponEntry == addItem(NewGameSaveEntry, <<>>, HostGetSaveData(value, reg),
                                    NoIndex, reg)
         IN  IF value.kind = "object" /\ value.cls = S_Weapon
             THEN AddItems(addItem(saveData, S_loadWeapon, weaponEntry, NoIndex, reg),
                           Tail(attrs), reg)
             ELSE AddItems(addItem(saveData, name \o <<" ", "=">>, value, NoIndex, reg),
                           Tail(attrs), reg)

\* getSaveData of a GameObject or a Weapon of the host.
HostGetSaveData(self, reg) == AddItems(BaseGetSaveData(self), self.items, reg)

\* baseObjToSave.getSaveData(forLevelSave), for the objects given to saveGame.
CallGetSaveData(baseObjToSave, reg) ==
    IF baseObjToSave.getSaveData = "host"
    THEN HostGetSaveData(baseObjToSave.data, reg)
    ELSE addItem(NewGameSaveEntry, S_data, baseObjToSave.data, NoIndex, reg)

\* datum.loadFn.rstrip().endswith("=")
IsAssignment(loadFn) ==
    RStrip(loadFn) # <<>> /\ RStrip(loadFn)[Len(RStrip(loadFn))] = "="

\* FieldName without its second rstrip: the blanks before the "=" stay in the
\* name.
FieldName_KeepsBlanks(loadFn) == SubSeq(RStrip(loadFn), 1, Len(RStrip(loadFn)) - 1)

\* datum.loadFn.rstrip()[:-1].rstrip()
FieldName(loadFn) == RStrip(SubSeq(RStrip(loadFn), 1, Len(RStrip(loadFn)) - 1))

\* The methods getattr() finds on a GameObject of the host; a Weapon has
\* none.
Methods == {S_setPosFromSave, S_loadWeapon}

\* The context object the host passes as refObj.
World == "world"

\* The record of one call of a method of the target.
Call(method, newVal, refObj) == [method |-> method, data |-> newVal, world |-> refObj]

\* What a load has done when it returns or raises: res, the object as it is
\* then, and the methods that were called.
Applied(res, self, called) == [res |-> res, self |-> self, calls |-> called]

RECURSIVE loadFromSaveData(_, _, _, _, _)
RECURSIVE ApplyData(_, _, _, _, _)
RECURSIVE CallMethod(_, _, _, _, _, _)

\* getattr(self, datum.loadFn)(newVal, refObj): setPosFromSave keeps the
\* value, loadWeapon loads a blank Weapon from the first item of the entry it
\* is given and keeps that Weapon.
CallMethod(self, name, newVal, refObj, reg, pred) ==
    IF self.cls # S_GameObject \/ name \notin Methods
    THEN Applied(Raise("AttributeError", name), self, <<>>)
    ELSE IF name = S_setPosFromSave
    THEN Applied(Return(PyNone), SetAttr(self, S_pos, newVal),
                 <<Call(name, newVal, refObj)>>)
    ELSE IF newVal.kind # "entry"
    THEN Applied(Raise("AttributeError", <<>>), self, <<Call(name, newVal, refObj)>>)
    ELSE IF newVal.items = <<>>
    THEN Applied(Return(PyNone), self, <<Call(name, newVal, refObj)>>)
    ELSE LET weapon == loadFromSaveData(Saveable(S_Weapon, <<>>), newVal.items[1],
                                        refObj, reg, pred)
         IN  IF weapon.res.ok
             THEN Applied(Return(PyNone), SetAttr(self, S_weapon, weapon.self),
                          <<Call(name, newVal, refObj)>> \o weapon.calls)
             ELSE Applied(weapon.res, self, <<Call(name, newVal, refObj)>> \o weapon.calls)

\* A body of the loop that looks at the loadFn first: the method is called
\* also for a datum that reconstructObject could not decode, with None.
ApplyDecoded_CallsBeforeDecoding(self, loadFn, newVal, refObj, reg, pred) ==
    IF loadFn = NoneText
    THEN Applied(Raise("AttributeError", <<>>), self, <<>>)
    ELSE IF IsAssignment(loadFn)
    THEN IF newVal.ok
         THEN Applied(Return(PyNone), SetAttr(self, FieldName(loadFn), newVal.val), <<>>)
         ELSE Applied(newVal, self, <<>>)
    ELSE CallMethod(self, loadFn, IF newVal.ok THEN newVal.val ELSE PyNone,
                    refObj, reg, pred)

\* The body of the loop of loadFromSaveData once reconstructObject has given
\* newVal or raised: an exception of reconstructObject leaves the loop, and
\* only then the loadFn of the datum asks for an assignment or a call.
ApplyDecoded(self, loadFn, newVal, refObj, reg, pred) ==
    IF ~newVal.ok THEN Applied(newVal, self, <<>>)
    ELSE IF loadFn = NoneText
    THEN Applied(Raise("AttributeError", <<>>), self, <<>>)
    ELSE IF IsAssignment(loadFn)
    THEN Applied(Return(PyNone), SetAttr(self, FieldName(loadFn), newVal.val), <<>>)
    ELSE CallMethod(self, loadFn, newVal.val, refObj, reg, pred)

\* The body of the loop of loadFromSaveData for one datum.
ApplyDatum(self, datum, refObj, reg, pred) ==
    ApplyDecoded(self, datum.loadFn,
                 reconstructObject(PyList(datum.items), datum.objType, reg, pred),
                 refObj, reg, pred)

\* The loop of loadFromSaveData over what is left of data.dataList: an
\* exception leaves the loop, with self as the earlier data have made it.
ApplyData(self, dataList, refObj, reg, pred) ==
    IF dataList = <<>> THEN Applied(Return(PyNone), self, <<>>)
    ELSE IF Head(dataList).kind # "entry"
    THEN Applied(Raise("AttributeError", <<>>), self, <<>>)
    ELSE
        LET step == ApplyDatum(self, Head(dataList), refObj, reg, pred)
            rest == ApplyData(step.self, Tail(dataList), refObj, reg, pred)
        IN  IF ~step.res.ok THEN step
            ELSE Applied(rest.res, rest.self, step.calls \o rest.calls)

\* A load that puts self back as it was when a datum raises.
loadFromSaveData_RollsBack(self, saveData, refObj, reg, pred) ==
    IF saveData = PyNone THEN Applied(Return(PyNone), self, <<>>)
    ELSE IF saveData.kind # "entry" THEN Applied(Raise("AttributeError", <<>>), self, <<>>)
    ELSE LET done == ApplyData(self, saveData.items, refObj, reg, pred)
         IN  IF done.res.ok THEN done ELSE Applied(done.res, self, done.calls)

\* self.loadFromSaveData(saveData, refObj)
loadFromSaveData(self, saveData, refObj, reg, pred) ==
    IF saveData = PyNone THEN Applied(Return(PyNone), self, <<>>)
    ELSE IF saveData.kind # "entry" THEN Applied(Raise("AttributeError", <<>>), self, <<>>)
    ELSE ApplyData(self, saveData.items, refObj, reg, pred)

(***************************************************************************)
(* GameSaver.saveGame and GameSaver.loadGame, with the failures of the     *)
(* file system.                                                            *)
(***************************************************************************)
\* The most file objects left open that the model follows.
MaxOpen == 1

\* The objects given to saveGame: SaveableWrappers with their data, an object
\* whose getSaveData raises, and one whose getSaveData returns None.
Savers ==
    {[getSaveData |-> "wrapper", data |-> v] :
        v \in {PyStr(ENTRY_MARKER), PyList(<<PyInt(7)>>)}}
    \cup {[getSaveData |-> g, data |-> PyNone] : g \in {"raises", "returns None"}}

\* What happens to the file system calls of one saveGame or loadGame: none
\* fails, open fails, or a write or read after the open fails.
Failures == {"none", "open", "transfer"}

\* The IOError that open, write or readline raises when the call fails.
FileError(call) == Raise("IOError", <<call>>)

\* An except clause that raises another error in place of the one it caught.
Reraise_AsRuntimeError(e) == Raise("RuntimeError", e.arg)

\* "except IOError: print(...); raise": the exception that leaves the call.
Reraise(e) == e

\* The first k lines of a text.
RECURSIVE FirstLines(_, _)
FirstLines(text, k) ==
    IF k = 0 \/ text = <<>> THEN <<>>
    ELSE SubSeq(text, 1, LineEnd(text))
         \o FirstLines(SubSeq(text, LineEnd(text) + 1, Len(text)), k - 1)

\* The try statement of saveGame, lines 397-405, with the objList that
\* getSaveData returned; when a write fails, written is the number of lines
\* that reached the file before.
WriteSaveFile(baseObjToSave, failure, written) ==
    LET objList == CallGetSaveData(baseObjToSave, specialTypeDictionary)
        text == writeEntry(objList)
    IN  /\ data' = baseObjToSave.data
        /\ IF failure = "open" THEN
              \* line 398 raises: fileObj stays None
              /\ written = 0
              /\ result' = Reraise(FileError("open"))
              /\ UNCHANGED <<entry, file, exists, openHandles>>
           ELSE IF baseObjToSave.getSaveData = "returns None" THEN
              \* line 346 raises AttributeError on None: no except
              \* clause matches and the else clause is skipped
              /\ failure = "none" /\ written = 0
              /\ result' = Raise("AttributeError", <<>>)
              /\ file' = <<>>
              /\ exists' = TRUE
              /\ openHandles' = openHandles + 1
              /\ UNCHANGED entry
           ELSE IF failure = "transfer" THEN
              \* a write raises IOError: lines 400-402 re-raise it
              /\ written < Newlines(text)
              /\ result' = Reraise(FileError("write"))
              /\ entry' = objList
              /\ file' = FirstLines(text, written)
              /\ exists' = TRUE
              /\ openHandles' = openHandles + 1
           ELSE
              \* lines 403-405: the file object is closed
              /\ written = Newlines(text)
              /\ result' = Return(PyNone)
              /\ entry' = objList
              /\ file' = text
              /\ exists' = TRUE
              /\ UNCHANGED openHandles

\* A saveGame that opens the file before it calls getSaveData: when
\* getSaveData raises, the file is there, empty and open.
saveGame_OpensFirst(baseObjToSave, failure, written) ==
    /\ openHandles < MaxOpen
    /\ pc' = "saveGame"
    /\ UNCHANGED <<registry, loaded, node, decoded, host>>
    /\ IF baseObjToSave.getSaveData = "raises" THEN
          /\ failure = "none" /\ written = 0
          /\ result' = Raise("getSaveData", <<>>)
          /\ file' = <<>>
          /\ exists' = TRUE
          /\ openHandles' = openHandles + 1
          /\ UNCHANGED <<data, entry>>
       ELSE
          WriteSaveFile(baseObjToSave, failure, written)

\* GameSaver.saveGame(baseObjToSave, fileName, forLevelSave); when a write
\* fails, written is the number of lines that reached the file before.
saveGame(baseObjToSave, failure, written) ==
    /\ openHandles < MaxOpen
    /\ pc' = "saveGame"
    /\ UNCHANGED <<registry, loaded, node, decoded, host>>
    /\ IF baseObjToSave.getSaveData = "raises" THEN
          \* line 394: the exception of getSaveData leaves saveGame
          /\ failure = "none" /\ written = 0
          /\ result' = Raise("getSaveData", <<>>)
          /\ UNCHANGED <<data, entry, file, exists, openHandles>>
       ELSE
          WriteSaveFile(baseObjToSave, failure, written)

\* GameSaver.loadGame(fileName)
loadGame(failure) ==
    /\ openHandles < MaxOpen
    /\ pc' = "loadGame"
    /\ UNCHANGED <<registry, data, entry, file, exists, node, decoded, host>>
    /\ IF failure = "open" \/ ~exists THEN
          \* line 419 raises: fileObj stays None
          /\ result' = Reraise(FileError("open"))
          /\ UNCHANGED <<loaded, openHandles>>
       ELSE IF failure = "transfer" THEN
          \* a readline raises IOError: lines 421-423 re-raise it
          /\ result' = Reraise(FileError("readline"))
          /\ openHandles' = openHandles + 1
          /\ UNCHANGED loaded
       ELSE IF ~readEntry(file).res.ok THEN
          \* line 375 raises ValueError: no except clause matches and the
          \* else clause is skipped
          /\ result' = readEntry(file).res
          /\ openHandles' = openHandles + 1
          /\ UNCHANGED loaded
       ELSE
          \* lines 424-428: the file object is closed, the entry returned
          /\ result' = readEntry(file).res
          /\ loaded' = readEntry(file).res
          /\ UNCHANGED openHandles

\* The host drops its references to the file objects it never got: they are
\* closed when the interpreter collects them.
Collect ==
    /\ openHandles > 0
    /\ openHandles' = 0
    /\ UNCHANGED <<registry, data, entry, file, loaded, node, decoded, pc, exists, result, host>>

Register ==
    \E type \in RegistrableTypes, h \in Handlers : addSpecialType(type, h[1], h[2])

SetPredicate == \E predicate \in Predicates : setIsSubclass(predicate)

Save == \E obj \in Values : getSaveData(obj)

Next ==
    \/ Register
    \/ SetPredicate
    \/ destroy
    \/ Save
    \/ WriteEntry
    \/ ReadEntry
    \/ ReconstructEntry
    \/ ReconstructLoaded

Spec == Init /\ [][Next]_vars

\* The node of the tuple (key, value) of two ints, as addItem builds it for an
\* item of a dict.
PairNode(key, value) ==
    Entry(S_tuple, <<>>, <<Entry(S_int, <<>>, <<PyStr(IntToStr(key))>>),
                           Entry(S_int, <<>>, <<PyStr(IntToStr(value))>>)>>)

\* The children of the dict nodes: two pairs with the key 7 and one with the
\* key 1.
PairNodes == {PairNode(7, 1), PairNode(7, 0), PairNode(1, 7)}

\* The children lists of those nodes: none, one item of any kind, and longer
\* lists of Leaves and nested nodes.
DataLists ==
    SeqsUpTo(Items, 1)
    \cup SeqsUpTo({PyStr(<<"1">>), PyStr(<<"0">>), Entry(S_int, <<>>, <<PyStr(<<"7">>)>>)},
                  MaxLen)
    \cup SeqsUpTo(PairNodes, MaxLen)

Decode == \E objType \in Tags, dataList \in DataLists :
             ReconstructNode(objType, dataList)

NextDecode ==
    \/ Register
    \/ SetPredicate
    \/ destroy
    \/ Decode

SpecDecode == Init /\ [][NextDecode]_vars

\* The lines saveGame writes for the object when nothing fails.
LinesOf(baseObjToSave) ==
    Newlines(writeEntry(CallGetSaveData(baseObjToSave, specialTypeDictionary)))

SaveGame ==
    \E baseObjToSave \in Savers, failure \in Failures :
        \E written \in 0..LinesOf(baseObjToSave) :
            saveGame(baseObjToSave, failure, written)

LoadGame == \E failure \in Failures : loadGame(failure)

NextIO ==
    \/ SaveGame
    \/ LoadGame
    \/ Collect

SpecIO == Init /\ [][NextIO]_vars

(***************************************************************************)
(* What the properties below speak of.                                     *)
(***************************************************************************)
\* The directives of the children of a record: assignments to the
\* attributes a and b in three spellings, the two methods of a GameObject,
\* and a method it does not have.
Directives ==
    {<<"a", " ", "=", " ">>, <<"a", "=">>, <<"b", " ", "=">>,
     S_setPosFromSave, S_loadWeapon, <<"m", "i", "s", "s", "i", "n", "g">>}

\* What those children hold: an int, another int, a value of a class that is
\* not known, and a Weapon in a GameSaveEntry of its own.
Payloads ==
    {Entry(S_int, <<>>, <<PyStr(<<"7">>)>>),
     Entry(S_int, <<>>, <<PyStr(<<"1">>)>>),
     Entry(S_Bar, <<>>, <<PyStr(<<"f">>)>>),
     Entry(S_GameSaveEntry, <<>>,
           <<Entry(S_Weapon, <<>>, <<Entry(S_str, <<"n", "a", "m", "e", " ", "=">>, <<PyStr(<<"x">>)>>)>>)>>)}

Children == {[p EXCEPT !.loadFn = d] : p \in Payloads, d \in Directives}

\* loadFromSaveData(data, refObj) on a blank GameObject, for a record that
\* was read from a file written by hand.
ApplyNode(dataList) ==
    /\ pc = "idle"
    /\ node' = Entry(S_GameObject, S_None, dataList)
    /\ LET r == loadFromSaveData(Saveable(S_GameObject, <<>>),
                                 Entry(S_GameObject, S_None, dataList), World,
                                 specialTypeDictionary, isSubclass)
       IN  /\ target' = r.self
           /\ calls' = r.calls
           /\ applied' = r.res
    /\ pc' = "applied"
    /\ UNCHANGED <<registry, data, entry, file, loaded, decoded, disk>>

\* self.loadFromSaveData(result, self) on a blank GameObject, with the entry
\* loadGame returned, as the load method of the examples does.
LoadFromSaveData ==
    /\ pc = "loadGame"
    /\ result.ok
    /\ LET r == loadFromSaveData(Saveable(S_GameObject, <<>>), result.val, World,
                                 specialTypeDictionary, isSubclass)
       IN  /\ target' = r.self
           /\ calls' = r.calls
           /\ applied' = r.res
    /\ pc' = "loaded"
    /\ UNCHANGED <<registry, data, entry, file, loaded, node, decoded, disk>>

\* The GameObjects the host saves: an int, a list of floats or of ints, and a
\* Weapon with a name.
HostRecords ==
    {[getSaveData |-> "host",
      data |-> Saveable(S_GameObject,
                        <<Attr(S_intField, PyInt(n)),
                          Attr(S_listField, l),
                          Attr(S_weapon, Saveable(S_Weapon, <<Attr(S_name, PyStr(s))>>))>>)] :
        n \in {7, -12},
        l \in {PyList(<<PyFloat(<<"1", ".", "5">>), PyFloat(<<"2", ".", "5">>)>>),
               PyList(<<>>), PyList(<<PyInt(7)>>)},
        s \in {<<"x">>, <<"a">>}}

\* The host saves once, at the start of a run.
SaveHost ==
    /\ pc = "idle"
    /\ \E o \in HostRecords : saveGame(o, "none", LinesOf(o))

LoadHost == loadGame("none")

ApplyNodes == \E dataList \in SeqsUpTo(Children, MaxLen) : ApplyNode(dataList)

NextLoad ==
    \/ SaveHost
    \/ LoadHost
    \/ LoadFromSaveData
    \/ ApplyNodes

SpecLoad == Init /\ [][NextLoad]_vars

(***************************************************************************)
(* addItem on a node that has children already                             *)
(***************************************************************************)
\* The children such a node has: an int and a str, each under an assignment.
OldChildren ==
    {Entry(S_int, <<"a", " ", "=">>, <<PyStr(<<"7">>)>>),
     Entry(S_str, <<"b", " ", "=">>, <<PyBytes(<<"a">>)>>)}

\* The nodes addItem is called on: the entry getSaveData starts from, with or
\* without the class name of a SaveableObject, and an entry that was itself
\* added under a directive.
Nodes ==
    {Entry(objType, loadFn, dataList) :
        objType \in {S_GameSaveEntry, S_GameObject},
        loadFn \in {NoneText, S_loadWeapon},
        dataList \in SeqsUpTo(OldChildren, MaxLen)}

\* The containers given to addItem: a list, a tuple and a dict, a set, and
\* instances of a subclass of dict and of a subclass of tuple.
Containers ==
    {PyList(<<PyInt(7), PyInt(0)>>),
     PyTuple(<<PyInt(7)>>),
     PyDict(<<PyTuple(<<PyInt(7), PyInt(0)>>)>>),
     PySet(<<PyInt(7)>>),
     Obj("dict", S_OrderedDict, 0, <<>>, <<>>, <<>>, <<PyTuple(<<PyInt(7), PyInt(0)>>)>>),
     Obj("tuple", S_Point, 0, <<>>, <<>>, <<>>, <<PyInt(7), PyInt(0)>>)}

\* The GameSaveEntry objects given to addItem: the save data of a Weapon,
\* with and without a directive of its own, and an entry without children.
EntryObjects ==
    {Entry(S_Weapon, NoneText, <<Entry(S_str, <<"n", "a", "m", "e", " ", "=">>, <<PyBytes(<<"x">>)>>)>>),
     Entry(S_Weapon, S_setPosFromSave,
           <<Entry(S_int, <<"c", "o", "o", "l", "d", "o", "w", "n", " ", "=">>, <<PyStr(<<"1">>)>>),
             Entry(S_str, <<"n", "a", "m", "e", " ", "=">>, <<PyBytes(<<"x">>)>>)>>),
     Entry(S_GameSaveEntry, S_setPosFromSave, <<>>)}

\* What addItem is given as obj.
AddedObjects ==
    Containers \cup EntryObjects
    \cup {PyInt(7), PyStr(ENTRY_MARKER), PyBytes(<<"a">>), PyNone}

\* What addItem is given as loadFn.
AddedDirectives == {<<>>, <<"d", " ", "=", " ">>, S_loadWeapon}

\* self.addItem(loadFn, obj, index) on a node of Nodes: node is self before
\* the call, entry is self and data is obj after it.
AddItem(self, loadFn, obj, index) ==
    /\ pc = "idle"
    /\ node' = self
    /\ data' = obj
    /\ entry' = addItem(self, loadFn, obj, index, specialTypeDictionary)
    /\ pc' = "added"
    /\ UNCHANGED <<registry, file, loaded, decoded, disk, host>>

AddAtEnd ==
    \E self \in Nodes, loadFn \in AddedDirectives, obj \in AddedObjects :
        AddItem(self, loadFn, obj, NoIndex)

AddAtIndex ==
    \E self \in Nodes, loadFn \in AddedDirectives, obj \in AddedObjects :
        \E index \in 0..Len(self.items) : AddItem(self, loadFn, obj, index)

NextAdd ==
    \/ AddAtEnd
    \/ AddAtIndex

SpecAdd == Init /\ [][NextAdd]_vars

\* The save file loses its end: only its first k lines are left.
Cut(k) ==
    /\ pc = "written"
    /\ k < Newlines(file)
    /\ file' = FirstLines(file, k)
    /\ UNCHANGED <<registry, data, entry, loaded, node, decoded, pc, disk, host>>

Truncate == \E k \in 0..Len(file) : Cut(k)

NextParse ==
    \/ Save
    \/ WriteEntry
    \/ Truncate
    \/ ReadEntry

SpecParse == Init /\ [][NextParse]_vars

\* a == b for two decoded values: two dicts are equal when they hold the
\* same keys with equal values, in whatever order.
RECURSIVE PyEq(_, _)
PyEq(a, b) ==
    IF a.kind = "dict" /\ b.kind = "dict" THEN
        /\ Len(a.items) = Len(b.items)
        /\ \A i \in 1..Len(a.items) : \E j \in 1..Len(b.items) :
              /\ KeyEq(a.items[i].items[1], b.items[j].items[1])
              /\ PyEq(a.items[i].items[2], b.items[j].items[2])
    ELSE IF a.kind \in {"list", "tuple"} /\ b.kind = a.kind THEN
        /\ Len(a.items) = Len(b.items)
        /\ \A i \in 1..Len(a.items) : PyEq(a.items[i], b.items[i])
    ELSE a = b

\* The predicate is set and accepts no registered type for the tag, or there
\* is no registered type: the built-in rules of reconstructObject decide.
NoTypeMatches(objType) ==
    \/ specialTypeDictionary = <<>>
    \/ /\ isSubclass # "None"
       /\ FirstSubclass(specialTypeDictionary, isSubclass, objType) = 0

\* The registry of the examples: the predicate of the examples, and vector
\* types with the save and restore functions that are inverse to each other.
InverseRegistry ==
    /\ isSubclass = "isSubclass"
    /\ specialTypeDictionary # <<>>
    /\ \A i \in 1..Len(specialTypeDictionary) :
          /\ specialTypeDictionary[i].restoreFn = "makeVector2FromSave"
          /\ specialTypeDictionary[i].saveFn = "getVector2ForSave"

\* The Leaves of a tree that addItem stored as bytes: those of the str and
\* bytes values.
RECURSIVE BytesLeaves(_)
BytesLeaves(e) ==
    UNION {IF e.items[i].kind = "entry" THEN BytesLeaves(e.items[i])
           ELSE IF e.items[i].kind = "bytes" THEN {e.items[i]} ELSE {} :
           i \in 1..Len(e.items)}

(***************************************************************************)
(* Round trips                                                             *)
(***************************************************************************)
\* C1: a supported value, encoded by addItem under a registry whose save and
\* restore functions are inverse, written by writeEntry and read by
\* readEntry, is read without an error and decoded by reconstructObject to a
\* value equal to it.
C1_RoundTrip ==
    [][ (data \in Supported /\ InverseRegistry) =>
          /\ (pc = "written" /\ pc' = "read") => loaded'.ok
          /\ (pc = "read" /\ pc' = "reloaded") =>
                decoded'.ok /\ PyEq(decoded'.val, data) ]_vars

\* The str "ENTRY" under the registry of the examples: its Leaf line is read
\* as the marker of a child node, and readEntry raises.
C1_Witness ==
    /\ pc = "read"
    /\ data = PyStr(ENTRY_MARKER)
    /\ InverseRegistry
    /\ loaded.exc = "ValueError"

\* C2: a str with a character the encoder escapes, encoded, written, read
\* back and decoded by the str rule, comes back as the same str.
C2_EscapedStrRoundTrip ==
    [][ ( /\ pc = "read" /\ pc' = "reloaded"
          /\ data.kind = "str"
          /\ UnicodeEscape(data.text) # data.text
          /\ NoTypeMatches(S_str) ) =>
            decoded' = Return(data) ]_vars

\* The str "a<newline>b" comes back as the four characters a \ n b.
C2_Witness ==
    /\ pc = "reloaded"
    /\ data = PyStr(<<"a", NL, "b">>)
    /\ NoTypeMatches(S_str)
    /\ decoded = Return(PyStr(<<"a", BS, "n", "b">>))

\* C3: no Leaf that addItem stores for a str or a bytes holds a newline, and
\* the file written for a str or bytes value has one line for its Leaf after
\* the seven lines of the two node headers and the marker.
C3_LeafIsOneLine ==
    /\ \A leaf \in BytesLeaves(entry) : NL \notin Range(leaf.text)
    /\ (pc = "written" /\ data.kind \in {"str", "bytes"}) =>
          /\ Newlines(file) = 8
          /\ file[Len(file)] = NL

C3_Witness ==
    /\ pc = "written"
    /\ data = PyStr(<<"a", NL, "b">>)
    /\ entry.items[1].items = <<PyBytes(<<"a", BS, "n", "b">>)>>

\* C4: a list or tuple of supported values, encoded by addItem and decoded
\* by reconstructObject from the node addItem built, comes back as a
\* sequence of the same kind with equal elements in the same order.
C4_SequenceRoundTrip ==
    [][ ( /\ pc = "encoded" /\ pc' = "decoded"
          /\ data \in Supported
          /\ data.kind \in {"list", "tuple"}
          /\ InverseRegistry ) =>
            /\ decoded'.ok
            /\ decoded'.val.kind = data.kind
            /\ Len(decoded'.val.items) = Len(data.items)
            /\ \A i \in 1..Len(data.items) :
                  PyEq(decoded'.val.items[i], data.items[i]) ]_vars

\* The list ["a"]: the Leaf of its element is a bytes, which the str rule
\* does not take.
C4_Witness ==
    /\ pc = "decoded"
    /\ data = PyList(<<PyStr(<<"a">>)>>)
    /\ InverseRegistry
    /\ decoded.exc = "TypeError"

\* C5: a dict of supported keys and values, encoded by addItem and decoded
\* by reconstructObject from the node addItem built, comes back as a dict
\* with the same keys and, for each key, the same value.
C5_DictRoundTrip ==
    [][ ( /\ pc = "encoded" /\ pc' = "decoded"
          /\ data \in Supported
          /\ data.kind = "dict"
          /\ InverseRegistry ) =>
            /\ decoded'.ok
            /\ decoded'.val.kind = "dict"
            /\ PyEq(decoded'.val, data) ]_vars

\* The dict {7: "a"}: the Leaf of its value is a bytes, which the str rule
\* does not take.
C5_Witness ==
    /\ pc = "decoded"
    /\ data = PyDict(<<PyTuple(<<PyInt(7), PyStr(<<"a">>)>>)>>)
    /\ InverseRegistry
    /\ decoded.exc = "TypeError"

(***************************************************************************)
(* Decoding                                                                *)
(***************************************************************************)
\* C6: a bool node with one Leaf decodes to True when the Leaf is "True",
\* "true", "1" or another spelling of "true", and to False for every other
\* text, when the built-in rules decide.
C6_BoolParsing ==
    [][ ( /\ pc = "idle" /\ pc' = "decoded node"
          /\ node'.objType = S_bool
          /\ Len(node'.items) = 1
          /\ node'.items[1].kind = "str"
          /\ NoTypeMatches(S_bool) ) =>
            decoded' = Return(PyBool(node'.items[1].text \in
                                {S_True, S_true, <<"T", "R", "U", "E">>, <<"1">>})) ]_vars

C6_Witness ==
    /\ pc = "decoded node"
    /\ node.objType = S_bool
    /\ node.items = <<PyStr(S_True)>>
    /\ specialTypeDictionary # <<>>
    /\ decoded = Return(PyBool(TRUE))

BuiltInTags ==
    {S_int, S_float, S_str, S_bytes, S_bool, S_NoneType, S_None,
     S_list, S_tuple, S_dict, S_GameSaveEntry}

\* C7 as claimed: every node whose tag is no primitive, no container and not
\* the tree-node tag, and for which no registered type matches, is rejected
\* with the unrecognised-class error that carries the tag.
C7_UnknownTagNamed ==
    [][ ( /\ pc = "idle" /\ pc' = "decoded node"
          /\ node'.objType \notin BuiltInTags
          /\ NoTypeMatches(node'.objType) ) =>
            decoded' = Raise("IOError: unrecognised class", node'.objType) ]_vars

\* C7: every node whose tag is no primitive, no container, not the tree-node
\* tag and neither 'function' nor 'method', and for which no registered type
\* matches, is rejected with the unrecognised-class error that carries the
\* tag.
C7_UnknownTagRejected ==
    [][ ( /\ pc = "idle" /\ pc' = "decoded node"
          /\ node'.objType \notin BuiltInTags \cup {S_function, S_method}
          /\ NoTypeMatches(node'.objType) ) =>
            decoded' = Raise("IOError: unrecognised class", node'.objType) ]_vars

C7_Witness ==
    /\ pc = "decoded node"
    /\ node.objType = S_Bar
    /\ node.items = <<PyStr(<<"f">>)>>
    /\ specialTypeDictionary # <<>>
    /\ isSubclass = "isSubclass"
    /\ ~decoded.ok

\* C8 as claimed: a node tagged 'function' or 'method' is never decoded to a
\* value, whatever the registry and the predicate are.
C8_CallableAlwaysFails ==
    [][ ( /\ pc = "idle" /\ pc' = "decoded node"
          /\ node'.objType \in {S_function, S_method} ) =>
            ~decoded'.ok ]_vars

\* C8: a node tagged 'function' or 'method' is rejected for every payload
\* when the predicate accepts no registered type for its tag, with the error
\* about methods and functions, and when types are registered and no
\* predicate is set.
C8_CallableFailsUnlessRegistered ==
    [][ ( /\ pc = "idle" /\ pc' = "decoded node"
          /\ node'.objType \in {S_function, S_method} ) =>
            /\ (specialTypeDictionary # <<>> /\ isSubclass = "None") => ~decoded'.ok
            /\ NoTypeMatches(node'.objType) =>
                  decoded' = Raise("IOError: cannot save methods or functions",
                                   Collapse(PyList(node'.items)).text) ]_vars

C8_Witness ==
    /\ pc = "decoded node"
    /\ node.objType = S_function
    /\ node.items = <<PyStr(<<"f">>)>>
    /\ specialTypeDictionary # <<>>
    /\ isSubclass = "isSubclass"
    /\ decoded.exc = "IOError: cannot save methods or functions"

\* C9: addItem on an instance of a class that no registered type covers adds
\* a node tagged with the class name whose only child is the Leaf str(obj),
\* and reconstructObject rejects that node when no registered type matches
\* its tag.
C9_UnknownClassDeferred ==
    [][ /\ ( /\ pc = "idle" /\ pc' = "encoded"
             /\ data'.kind = "object"
             /\ \A i \in 1..Len(specialTypeDictionary) :
                   ~IsInstance(data', specialTypeDictionary[i].type) ) =>
               entry'.items = <<Entry(data'.cls, S_data, <<PyStr(data'.text)>>)>>
        /\ ( /\ pc = "encoded" /\ pc' = "decoded"
             /\ data.kind = "object"
             /\ entry.items = <<Entry(data.cls, S_data, <<PyStr(data.text)>>)>>
             /\ NoTypeMatches(data.cls) ) =>
               decoded' = Raise("IOError: unrecognised class", data.cls) ]_vars

C9_Witness ==
    /\ pc = "decoded"
    /\ data.cls = S_Foo
    /\ specialTypeDictionary # <<>>
    /\ node = Entry(S_Foo, S_data, <<PyStr(<<"f", "o", "o", "!">>)>>)
    /\ decoded = Raise("IOError: unrecognised class", S_Foo)

(***************************************************************************)
(* File handles                                                            *)
(***************************************************************************)
\* C10: when saveGame or loadGame has returned or raised, no file object it
\* opened is left open.
C10_HandleClosedOnEveryPath ==
    [][ pc' \in {"saveGame", "loadGame"} => openHandles' = openHandles ]_vars

\* loadGame has raised the ValueError of readEntry and its file object is
\* open.
C10_Witness ==
    /\ pc = "loadGame"
    /\ result.exc = "ValueError"
    /\ openHandles = 1

\* C11: when open, write or readline raises an IOError, saveGame and
\* loadGame end by raising that same IOError, and loadGame returns no tree.
C11_IOErrorSurfaces ==
    [][ /\ \A b \in Savers : \A w \in 0..LinesOf(b) :
              /\ saveGame(b, "open", w) => result' = FileError("open")
              /\ saveGame(b, "transfer", w) => result' = FileError("write")
        /\ (loadGame("open") /\ exists) => (result' = FileError("open") /\ loaded' = loaded)
        /\ loadGame("transfer") =>
              (result' = FileError(IF exists THEN "readline" ELSE "open") /\ loaded' = loaded)
      ]_vars

C11_Witness ==
    /\ pc = "loadGame"
    /\ exists
    /\ result = FileError("readline")
    /\ openHandles = 1

\* C12: readEntry on a file that lost its last lines, so that a node's
\* declared count of children exceeds the lines that remain, raises an error.
C12_TruncatedFileFails ==
    [][ ( /\ pc = "written" /\ pc' = "read"
          /\ file # writeEntry(entry) ) =>
            ~loaded'.ok ]_vars

\* The file of the int 7 without its eighth line, the Leaf: readEntry returns
\* a tree whose Leaf is the empty text.
C12_Witness ==
    /\ pc = "read"
    /\ data = PyInt(7)
    /\ Newlines(file) = 7
    /\ loaded.ok
    /\ loaded.val.items = <<Entry(S_int, S_data, <<PyStr(<<>>)>>)>>

(***************************************************************************)
(* The registry                                                            *)
(***************************************************************************)
\* C13: after addSpecialType(type, restoreFn, saveFn) the registry holds one
\* entry for type, with these two functions, no type has two entries, and the
\* entries of the other types are those it held before.
C13_LastRegistrationWins ==
    [][ \A type \in RegistrableTypes, h \in Handlers :
          addSpecialType(type, h[1], h[2]) =>
            /\ {specialTypeDictionary'[i] : i \in 1..Len(specialTypeDictionary')}
                  \ {e \in Range(specialTypeDictionary) : e.type # type}
                = {SpecialTypeEntry(type, h[1], h[2])}
            /\ {e \in Range(specialTypeDictionary) : e.type # type}
                  \subseteq Range(specialTypeDictionary')
            /\ \A i, j \in 1..Len(specialTypeDictionary') :
                  specialTypeDictionary'[i].type = specialTypeDictionary'[j].type => i = j
      ]_vars

C13_Witness ==
    /\ Len(specialTypeDictionary) = 2
    /\ specialTypeDictionary[1] =
          SpecialTypeEntry(S_VBase2, "getGameObjectFromSave", "getGameObjectID")
    /\ specialTypeDictionary[2] =
          SpecialTypeEntry(S_Vec2, "makeVector2FromSave", "getVector2ForSave")

\* C14: when the predicate is set and accepts a registered type for the tag
\* of a node, reconstructObject returns what the restoreFn of the first such
\* type, in registration order, returns for the children of the node (the
\* only child when there is one), whatever the tag is; no built-in rule
\* runs.
C14_RegistryDecodesFirst ==
    [][ ( /\ pc = "idle" /\ pc' = "decoded node"
          /\ isSubclass # "None" ) =>
            \A i \in 1..Len(specialTypeDictionary) :
              ( /\ CallIsSubclass(isSubclass, node'.objType, specialTypeDictionary[i].type)
                /\ \A j \in 1..(i - 1) :
                      ~CallIsSubclass(isSubclass, node'.objType,
                                      specialTypeDictionary[j].type) ) =>
                decoded' = CallRestoreFn(specialTypeDictionary[i].restoreFn,
                                         IF Len(node'.items) = 1 THEN node'.items[1]
                                         ELSE PyList(node'.items)) ]_vars

\* A Vec2 node under a registry whose first type, Vec2, and second type,
\* VBase2, both match: the restoreFn of Vec2 gave the result.
C14_Witness ==
    /\ pc = "decoded node"
    /\ isSubclass = "isSubclass"
    /\ node.objType = S_Vec2
    /\ Len(node.items) = 1
    /\ specialTypeDictionary =
          <<SpecialTypeEntry(S_Vec2, "makeVector2FromSave", "getVector2ForSave"),
            SpecialTypeEntry(S_VBase2, "getGameObjectFromSave", "getGameObjectID")>>
    /\ decoded = Return(Vec2(7, 1))

\* C15 as claimed: addItem uses a registry entry for a value only when the
\* class of the value is the registered type itself; an instance of a strict
\* subclass is stored by the fallback, as the Leaf str(obj).
C15_ExactTypeOnly ==
    [][ ( /\ pc = "idle" /\ pc' = "encoded"
          /\ data'.kind = "object"
          /\ \A i \in 1..Len(specialTypeDictionary) :
                specialTypeDictionary[i].type # data'.cls ) =>
            entry'.items = <<Entry(data'.cls, S_data, <<PyStr(data'.text)>>)>> ]_vars

\* C15: addItem uses a registry entry for a value when the value is an
\* instance of the registered type, an instance of a subclass included; the
\* saveFn that is called is that of the first such type in registration
\* order, and its result is encoded as the only child of the node.
C15_FirstInstanceEncodes ==
    [][ ( /\ pc = "idle" /\ pc' = "encoded"
          /\ data'.kind = "object" ) =>
            \A i \in 1..Len(specialTypeDictionary) :
              ( /\ specialTypeDictionary[i].type \in HostBases(data'.cls)
                /\ \A j \in 1..(i - 1) :
                      specialTypeDictionary[j].type \notin HostBases(data'.cls) ) =>
                entry'.items =
                  <<Entry(data'.cls, S_data,
                          <<NewEntry(<<>>, CallSaveFn(specialTypeDictionary[i].saveFn, data'),
                                     specialTypeDictionary)>>)>> ]_vars

\* A Vec2 saved with VBase2 registered first and Vec2 second: the saveFn of
\* VBase2, of which Vec2 is a strict subclass, gave the child.
C15_Witness ==
    /\ pc = "encoded"
    /\ data = Vec2(1, 2)
    /\ specialTypeDictionary =
          <<SpecialTypeEntry(S_VBase2, "getGameObjectFromSave", "getGameObjectID"),
            SpecialTypeEntry(S_Vec2, "makeVector2FromSave", "getVector2ForSave")>>
    /\ entry.items = <<Entry(S_Vec2, S_data, <<Entry(S_int, <<>>, <<PyStr(<<"0">>)>>)>>)>>

\* C16: destroy() leaves the registry empty and the predicate unset and
\* changes no tree; with the registry empty, addItem stores a host object as
\* the Leaf str(obj), and reconstructObject rejects the tag of a host class,
\* so that no function registered before is called.
C16_DestroyClearsRegistry ==
    [][ /\ destroy =>
              /\ specialTypeDictionary' = <<>>
              /\ isSubclass' = "None"
              /\ <<data', entry', loaded', node', decoded', file'>>
                    = <<data, entry, loaded, node, decoded, file>>
        /\ ( /\ specialTypeDictionary = <<>> /\ isSubclass = "None"
             /\ pc = "idle" /\ pc' = "encoded"
             /\ data'.kind = "object" ) =>
               entry'.items = <<Entry(data'.cls, S_data, <<PyStr(data'.text)>>)>>
        /\ ( /\ specialTypeDictionary = <<>> /\ isSubclass = "None"
             /\ pc = "encoded" /\ pc' = "decoded"
             /\ data.kind = "object" ) =>
               decoded' = Raise("IOError: unrecognised class", data.cls) ]_vars

\* A Vec2 that was encoded as a tuple while its type was registered, and
\* decoded after destroy(): the tree is as it was and the tag is rejected.
C16_Witness ==
    /\ specialTypeDictionary = <<>>
    /\ isSubclass = "None"
    /\ pc = "decoded"
    /\ data = Vec2(1, 2)
    /\ entry.items[1].items[1].objType = S_tuple
    /\ node = entry.items[1]
    /\ decoded = Raise("IOError: unrecognised class", S_Vec2)

(***************************************************************************)
(* The file format                                                         *)
(***************************************************************************)
\* Two trees have, at every position, the same type tag, as many children,
\* a nested node where the other has one, and the same text in their Leaves.
RECURSIVE SameShape(_, _)
SameShape(a, b) ==
    /\ a.objType = b.objType
    /\ Len(a.items) = Len(b.items)
    /\ \A i \in 1..Len(a.items) :
          IF a.items[i].kind = "entry" \/ b.items[i].kind = "entry"
          THEN /\ a.items[i].kind = "entry"
               /\ b.items[i].kind = "entry"
               /\ SameShape(a.items[i], b.items[i])
          ELSE a.items[i].text = b.items[i].text

\* C18: readEntry, applied to the lines writeEntry wrote for a tree that
\* addItem built, returns a tree of the same shape: the same tags, counts of
\* children, nested nodes and Leaf texts.
C18_ReadInvertsWrite ==
    [][ (pc = "written" /\ pc' = "read") =>
          (loaded'.ok /\ SameShape(loaded'.val, entry)) ]_vars

\* The tree of the bytes b"ENTRY": its Leaf line is read as the marker of a
\* nested node, and readEntry raises at the count line that is not there.
C18_Witness ==
    /\ pc = "read"
    /\ data = PyBytes(ENTRY_MARKER)
    /\ entry.items = <<Entry(S_bytes, S_data, <<PyBytes(ENTRY_MARKER)>>)>>
    /\ loaded.exc = "ValueError"

\* The tree a that was read has, at every node, the directive of the tree b
\* that was written, and the text none where b has no directive set.
RECURSIVE SameDirectives(_, _, _)
SameDirectives(a, b, none) ==
    /\ a.loadFn = (IF b.loadFn = NoneText THEN none ELSE b.loadFn)
    /\ \A i \in 1..Len(b.items) :
          b.items[i].kind = "entry" =>
            /\ a.items[i].kind = "entry"
            /\ SameDirectives(a.items[i], b.items[i], none)

\* The second line of a file, without its newline.
SecondLine(text) == readLine(readLine(text).rest).line

\* C20 as claimed: the second line written for the root record, which has no
\* directive, is empty, and every node is read back with the directive it
\* had, a node without one with the empty text.
C20_AbsentDirectiveIsEmpty ==
    [][ ( /\ pc = "written" /\ pc' = "read"
          /\ loaded'.ok /\ SameShape(loaded'.val, entry) ) =>
            /\ SecondLine(file) = <<>>
            /\ SameDirectives(loaded'.val, entry, <<>>) ]_vars

\* C20: the second line written for a node whose directive is the empty
\* text, as that of a container element, is empty and is read back as the
\* empty text; the second line written for a node whose directive was never
\* set, as that of the root record, is the text None and is read back as the
\* directive "None".
C20_UnsetDirectiveIsNone ==
    [][ ( /\ pc = "written" /\ pc' = "read"
          /\ loaded'.ok /\ SameShape(loaded'.val, entry) ) =>
            /\ entry.loadFn = NoneText
            /\ SecondLine(file) = S_None
            /\ SameDirectives(loaded'.val, entry, S_None) ]_vars

C20_Witness ==
    /\ pc = "read"
    /\ data = PyList(<<PyInt(7)>>)
    /\ loaded.ok
    /\ loaded.val.loadFn = S_None
    /\ loaded.val.items[1].loadFn = S_data
    /\ loaded.val.items[1].items[1].loadFn = <<>>

(***************************************************************************)
(* Loading a record into an object                                         *)
(***************************************************************************)

\* C19: after saveGame of a GameObject that holds an int, a list and a Weapon
\* with a name (saved as a GameSaveEntry of its own under loadWeapon), then
\* loadGame and loadFromSaveData on a blank GameObject, the load has returned
\* and the blank object has the same int, a list with the same elements in the
\* same order, and a Weapon with the same name.
C19_RoundTripRestoresRecord ==
    (pc = "loaded" /\ data.kind = "object" /\ data.cls = S_GameObject) =>
        /\ applied = Return(PyNone)
        /\ \A f \in {S_intField, S_listField, S_weapon} : HasAttr(target, f)
        /\ GetAttr(target, S_intField) = GetAttr(data, S_intField)
        /\ GetAttr(target, S_listField).kind = "list"
        /\ PyEq(GetAttr(target, S_listField), GetAttr(data, S_listField))
        /\ GetAttr(target, S_weapon).cls = S_Weapon
        /\ HasAttr(GetAttr(target, S_weapon), S_name)
        /\ GetAttr(GetAttr(target, S_weapon), S_name) =
               GetAttr(GetAttr(data, S_weapon), S_name)

\* The record of the scenario, {intField = 7, listField = [1.5, 2.5],
\* weapon = Weapon{name = "x"}}, has been saved and loaded into a blank
\* GameObject.
C19_Witness ==
    /\ pc = "loaded"
    /\ data = Saveable(S_GameObject,
                       <<Attr(S_intField, PyInt(7)),
                         Attr(S_listField, PyList(<<PyFloat(<<"1", ".", "5">>),
                                                    PyFloat(<<"2", ".", "5">>)>>)),
                         Attr(S_weapon, Saveable(S_Weapon, <<Attr(S_name, PyStr(<<"x">>))>>))>>)
    /\ GetAttr(target, S_intField) = PyInt(7)
    /\ Len(GetAttr(target, S_listField).items) = 2
    /\ GetAttr(GetAttr(target, S_weapon), S_name) = PyStr(<<"x">>)
    /\ Len(calls) = 1

\* The attribute a directive of Directives assigns, <<>> for the name of a
\* method.
AssignedField(directive) ==
    CASE directive = <<"a", " ", "=", " ">> -> <<"a">>
      [] directive = <<"a", "=">> -> <<"a">>
      [] directive = <<"b", " ", "=">> -> <<"b">>
      [] OTHER -> <<>>

\* The value loadFromSaveData decodes from a child of a record.
DecodedChild(datum) ==
    reconstructObject(PyList(datum.items), datum.objType,
                      specialTypeDictionary, isSubclass).val

\* The places, in order, of the children of a record that name a method.
MethodChildren(dataList) ==
    SelectSeq([i \in 1..Len(dataList) |-> i],
              LAMBDA i : AssignedField(dataList[i].loadFn) = <<>>)

\* C17: when loadFromSaveData returns, every child whose directive ends with
\* "=" once its trailing blanks are dropped has set the attribute named by
\* what is left of the directive, again without trailing blanks, to the
\* value decoded from the child; of two children that set the same attribute
\* the later one decides; every other child has made one call of the method
\* its directive names, with the decoded value and refObj, and the calls were
\* made in the order of the children.
C17_ChildrenAppliedInOrder ==
    (pc = "applied" /\ applied.ok) =>
        LET dataList == node.items
            called == MethodChildren(dataList)
        IN  /\ Len(calls) = Len(called)
            /\ \A j \in 1..Len(called) :
                  calls[j] = Call(dataList[called[j]].loadFn,
                                  DecodedChild(dataList[called[j]]), World)
            /\ \A f \in {<<"a">>, <<"b">>} :
                  LET setters == {i \in 1..Len(dataList) :
                                      AssignedField(dataList[i].loadFn) = f}
                  IN  IF setters = {} THEN ~HasAttr(target, f)
                      ELSE /\ HasAttr(target, f)
                           /\ GetAttr(target, f) =
                                  DecodedChild(dataList[CHOOSE i \in setters :
                                                          \A k \in setters : k <= i])

\* A record with two children that set the attribute a, by two spellings of
\* the directive, to 7 and then to 1, has been loaded: a is 1.
C17_Witness ==
    /\ pc = "applied"
    /\ applied = Return(PyNone)
    /\ Len(node.items) = 2
    /\ node.items[1].loadFn = <<"a", " ", "=", " ">>
    /\ node.items[2].loadFn = <<"a", "=">>
    /\ DecodedChild(node.items[1]) = PyInt(7)
    /\ DecodedChild(node.items[2]) = PyInt(1)
    /\ GetAttr(target, <<"a">>) = PyInt(1)
    /\ calls = <<>>

(***************************************************************************)
(* The built-in rules of reconstructObject                                 *)
(***************************************************************************)

\* C21: a bool node decodes to True only when its payload is one Leaf whose
\* lowered text is "true" or "1"; every other payload (no child, two or more
\* children, a nested node as the only child) decodes to False, when the
\* built-in rules decide.
C21_BoolFalseForEveryOtherPayload ==
    [][ ( /\ pc = "idle" /\ pc' = "decoded node"
          /\ node'.objType = S_bool
          /\ NoTypeMatches(S_bool) ) =>
            decoded' = Return(PyBool(/\ Len(node'.items) = 1
                                     /\ node'.items[1].kind = "str"
                                     /\ LowerStr(node'.items[1].text) \in {S_true, <<"1">>})) ]_vars

\* A bool node with the two Leaves "0" and "0" has been decoded by the
\* built-in rule: the result is True.
C21_Witness ==
    /\ pc = "decoded node"
    /\ node.objType = S_bool
    /\ node.items = <<PyStr(<<"0">>), PyStr(<<"0">>)>>
    /\ specialTypeDictionary = <<>>
    /\ decoded = Return(PyBool(TRUE))

(***************************************************************************)
(* What addItem adds                                                       *)
(***************************************************************************)

\* The place, counted from 1, of the child a call addItem(loadFn, obj, index)
\* is to add to self: the end for no index, the place index otherwise.
PlaceOf(self, index) == IF index = NoIndex THEN Len(self.items) + 1 ELSE index + 1

\* The indexes addItem is called with on self.
Indexes(self) == {NoIndex} \cup 0..Len(self.items)

\* C22: the child addItem adds for a dict, or for an instance of a subclass of
\* dict, has the type tag "dict", and the child it adds for any other
\* iterable that is not a str or a bytes (a list, a tuple, an instance of a
\* subclass of these, a set) has the type tag "list" or "tuple": a tag that
\* the list, tuple or dict rule of reconstructObject takes.
C22_ContainerTagsAreDecodable ==
    [][ \A self \in Nodes, loadFn \in AddedDirectives, obj \in AddedObjects :
          \A index \in Indexes(self) :
            AddItem(self, loadFn, obj, index) =>
                LET child == entry'.items[PlaceOf(self, index)]
                IN  /\ obj.kind = "dict" => child.objType = S_dict
                    /\ obj.kind \in {"list", "tuple", "set"} =>
                           child.objType \in {S_list, S_tuple} ]_vars

\* The set {7} has been added: its child is tagged "set", with the node of
\* the element 7 under it, and reconstructObject rejects that tag.
C22_Witness ==
    /\ pc = "added"
    /\ data = PySet(<<PyInt(7)>>)
    /\ entry.items[Len(entry.items)] =
           Entry(S_set, <<>>, <<Entry(S_int, <<>>, <<PyStr(<<"7">>)>>)>>)
    /\ ~reconstructObject(PyList(entry.items[Len(entry.items)].items), S_set,
                          specialTypeDictionary, isSubclass).ok

\* C23: a node tagged GameSaveEntry, when the built-in rules decide, decodes
\* to a new GameSaveEntry with that tag whose dataList holds the children of
\* the node as they are, in their order, whether there are none, one or
\* several.
C23_EntryRewrapsChildren ==
    [][ ( /\ pc = "idle" /\ pc' = "decoded node"
          /\ node'.objType = S_GameSaveEntry
          /\ NoTypeMatches(S_GameSaveEntry) ) =>
            /\ decoded'.ok
            /\ decoded'.val.kind = "entry"
            /\ decoded'.val.objType = S_GameSaveEntry
            /\ decoded'.val.items = node'.items ]_vars

\* A GameSaveEntry node with the two children "1" and the int node of 7 has
\* been decoded by the built-in rule: both children are in the result, the
\* nested node not decoded.
C23_Witness ==
    /\ pc = "decoded node"
    /\ node.objType = S_GameSaveEntry
    /\ node.items = <<PyStr(<<"1">>), Entry(S_int, <<>>, <<PyStr(<<"7">>)>>)>>
    /\ specialTypeDictionary = <<>>
    /\ decoded.ok
    /\ decoded.val.items = node.items

\* C24: the child addItem(loadFn, obj) adds for an obj that is a
\* GameSaveEntry has the type tag of obj, the children of obj in their order,
\* and the loadFn given to addItem, not the loadFn of obj.
C24_EntryMergedUnderNewDirective ==
    [][ \A self \in Nodes, loadFn \in AddedDirectives, obj \in EntryObjects :
          \A index \in Indexes(self) :
            AddItem(self, loadFn, obj, index) =>
                LET child == entry'.items[PlaceOf(self, index)]
                IN  /\ child.kind = "entry"
                    /\ child.objType = obj.objType
                    /\ child.items = obj.items
                    /\ child.loadFn = loadFn ]_vars

\* The save data of a Weapon, an entry with two children and the directive
\* setPosFromSave of its own, has been added under "d = ".
C24_Witness ==
    /\ pc = "added"
    /\ data.kind = "entry"
    /\ data.objType = S_Weapon
    /\ data.loadFn = S_setPosFromSave
    /\ Len(data.items) = 2
    /\ entry.items[Len(entry.items)] = Entry(S_Weapon, <<"d", " ", "=", " ">>, data.items)

C25_LastPairWins ==
    [][ ( /\ pc = "idle" /\ pc' = "decoded node"
          /\ node'.objType = S_dict
          /\ \A i \in 1..Len(node'.items) : node'.items[i] \in PairNodes
          /\ \A objType \in {S_dict, S_tuple, S_int} : NoTypeMatches(objType) ) =>
            LET pairs == [i \in 1..Len(node'.items) |-> DecodedChild(node'.items[i])]
                keys == {pairs[i].items[1] : i \in 1..Len(pairs)}
                got == decoded'.val.items
            IN  /\ decoded'.ok
                /\ decoded'.val.kind = "dict"
                /\ Len(got) = Cardinality(keys)
                /\ \A k \in keys :
                      LET last == CHOOSE i \in 1..Len(pairs) :
                                      /\ pairs[i].items[1] = k
                                      /\ \A j \in 1..Len(pairs) :
                                            pairs[j].items[1] = k => j <= i
                      IN  \E r \in 1..Len(got) :
                              got[r] = PyTuple(<<k, pairs[last].items[2]>>) ]_vars

\* A dict node with the pairs (7, 1) and (7, 0) has been decoded by the
\* built-in rules: the got is {7: 0}.
C25_Witness ==
    /\ pc = "decoded node"
    /\ node.objType = S_dict
    /\ node.items = <<PairNode(7, 1), PairNode(7, 0)>>
    /\ specialTypeDictionary = <<>>
    /\ decoded = Return(PyDict(<<PyTuple(<<PyInt(7), PyInt(0)>>)>>))

(***************************************************************************)
(* The marker of a nested node                                             *)
(***************************************************************************)

\* The Leaves of a tree: the data items that are not nodes.
RECURSIVE Leaves(_)
Leaves(e) ==
    UNION {IF e.items[i].kind = "entry" THEN Leaves(e.items[i]) ELSE {e.items[i]} :
           i \in 1..Len(e.items)}

\* C26: no Leaf of a tree that addItem built is written by writeEntry as the
\* line "ENTRY", the line it writes before a nested node; so no line written
\* for a Leaf is read by readEntry as the start of a nested node.
C26_NoLeafIsTheMarker ==
    \A leaf \in Leaves(entry) : writeLine(leaf) # ENTRY_MARKER \o <<NL>>

\* The str "ENTRY": its Leaf is written as the line "ENTRY", and readEntry
\* takes that line for the marker and raises at the lines that are not
\* there.
C26_Witness ==
    /\ pc = "read"
    /\ data = PyStr(ENTRY_MARKER)
    /\ Leaves(entry) = {PyBytes(ENTRY_MARKER)}
    /\ writeLine(PyBytes(ENTRY_MARKER)) = ENTRY_MARKER \o <<NL>>
    /\ ~loaded.ok

(***************************************************************************)
(* A load that raises                                                      *)
(***************************************************************************)

\* The children of Children at which a load of a GameObject raises: a class
\* name reconstructObject does not know, a method a GameObject does not have,
\* and loadWeapon given an int.
Raises(datum) ==
    \/ datum.objType = S_Bar
    \/ datum.loadFn = <<"m", "i", "s", "s", "i", "n", "g">>
    \/ datum.loadFn = S_loadWeapon /\ datum.objType = S_int

\* The place of the first child of dataList at which the load raises.
FirstRaising(dataList) ==
    CHOOSE k \in 1..Len(dataList) :
        /\ Raises(dataList[k])
        /\ \A j \in 1..(k - 1) : ~Raises(dataList[j])

\* C27: when the k-th child makes loadFromSaveData raise, the attributes set
\* and the calls made for the children before it are as they were made, and
\* no later child has set an attribute or caused a call.
C27_NoRollback ==
    (pc = "applied" /\ ~applied.ok) =>
        /\ \E i \in 1..Len(node.items) : Raises(node.items[i])
        /\ LET k == FirstRaising(node.items)
               before == SubSeq(node.items, 1, k - 1)
               called == MethodChildren(before)
           IN  /\ Len(calls) \in {Len(called), Len(called) + 1}
               /\ \A j \in 1..Len(called) :
                     calls[j] = Call(before[called[j]].loadFn,
                                     DecodedChild(before[called[j]]), World)
               /\ Len(calls) = Len(called) + 1 =>
                     calls[Len(calls)].method = node.items[k].loadFn
               /\ \A f \in {<<"a">>, <<"b">>} :
                     LET setters == {i \in 1..Len(before) :
                                         AssignedField(before[i].loadFn) = f}
                     IN  IF setters = {} THEN ~HasAttr(target, f)
                         ELSE /\ HasAttr(target, f)
                              /\ GetAttr(target, f) =
                                     DecodedChild(before[CHOOSE i \in setters :
                                                           \A j \in setters : j <= i])

\* A record whose first child sets a to 7 and whose second child names a
\* method a GameObject does not have has been loaded: the load raised
\* AttributeError and a is 7.
C27_Witness ==
    /\ pc = "applied"
    /\ applied.exc = "AttributeError"
    /\ Len(node.items) = 2
    /\ AssignedField(node.items[1].loadFn) = <<"a">>
    /\ node.items[2].loadFn = <<"m", "i", "s", "s", "i", "n", "g">>
    /\ node.items[2].objType = S_int
    /\ GetAttr(target, <<"a">>) = PyInt(7)
    /\ calls = <<>>

\* C29: a child whose class name reconstructObject does not know makes
\* loadFromSaveData raise the error of the unrecognised class, whatever its
\* directive is, and the method the directive names is not called.
C29_DecodedBeforeDirective ==
    ( /\ pc = "applied"
      /\ \E i \in 1..Len(node.items) : Raises(node.items[i])
      /\ node.items[FirstRaising(node.items)].objType = S_Bar ) =>
        /\ applied = Raise("IOError: unrecognised class", S_Bar)
        /\ Len(calls) =
               Len(MethodChildren(SubSeq(node.items, 1, FirstRaising(node.items) - 1)))
        /\ \A j \in 1..Len(calls) : calls[j].data # PyNone

\* A record whose only child has the class name Bar and the directive
\* setPosFromSave has been loaded: the load raised the IOError of the
\* unrecognised class and setPosFromSave was not called.
C29_Witness ==
    /\ pc = "applied"
    /\ Len(node.items) = 1
    /\ node.items[1].objType = S_Bar
    /\ node.items[1].loadFn = S_setPosFromSave
    /\ applied = Raise("IOError: unrecognised class", S_Bar)
    /\ calls = <<>>
    /\ ~HasAttr(target, S_pos)

(***************************************************************************)
(* saveGame when getSaveData raises                                        *)
(***************************************************************************)

\* C28: saveGame calls getSaveData before it opens the file: when getSaveData
\* raises, no file is created, and a file saved earlier holds what it held.
C28_NoFileWhenGetSaveDataRaises ==
    [][ (pc' = "saveGame" /\ result' = Raise("getSaveData", <<>>)) =>
            (exists' = exists /\ file' = file) ]_vars

\* A save has written the file, and a later saveGame has ended with the
\* exception of getSaveData: the file holds the lines of the earlier save.
C28_Witness ==
    /\ pc = "saveGame"
    /\ result = Raise("getSaveData", <<>>)
    /\ exists
    /\ entry.kind = "entry"
    /\ entry.items # <<>>
    /\ file = writeEntry(entry)
    /\ openHandles = 0

====
